---- MODULE Spec2Model ----
(***************************************************************************)
(* Plan Mode of nanocoder: the PlanningManager phase state machine         *)
(* (planning-manager.ts, planning/types.ts) and the QuestionManager        *)
(* (planning/questions/question-manager.ts, planning/questions/types.ts),  *)
(* the InteractiveQuestion component with the handlers of                  *)
(* usePlanningHandlers, and the plan file store.                           *)
(***************************************************************************)
EXTENDS Integers, Sequences, FiniteSets, TLC

VARIABLES
    enabled,            \* PlanningState.enabled
    currentPhase,       \* PlanningState.currentPhase
    planFile,           \* PlanningState.planFile (NULL or a PlanFile record)
    phaseProgress,      \* PlanningState.phaseProgress
    emitted,            \* notifications raised by the last call, in order
    call,               \* the last call: its name and how it returned
    questionQueue,      \* QuestionState.questionQueue
    currentQuestion,    \* QuestionState.currentQuestion (NULL or a Question)
    answeredQuestions,  \* QuestionState.answeredQuestions, in insertion order
    completed,          \* QuestionState.completed
    context,            \* QuestionManager.#context (NULL or a QuestionContext)
    lastRequest,        \* the request of the last generateQuestions call
    config,             \* QuestionManager.#config
    selectionState,     \* InteractiveQuestion: selectedIndices, isConfirmed
    planDirs,           \* the plan directories that exist on disk
    files,              \* the files in plan directories: path -> content
    inFlight,           \* the savePlanFile calls that await: caller -> call
    currentMode,        \* mode-context: the development mode of the tools
    appState            \* the application's planningEnabled, planningPhase,
                        \* planFile and developmentMode

pmState == <<enabled, currentPhase, planFile, phaseProgress>>
pmVars == <<enabled, currentPhase, planFile, phaseProgress, emitted>>
qmState == <<questionQueue, currentQuestion, answeredQuestions, completed>>
qmVars == <<questionQueue, currentQuestion, answeredQuestions, completed, context,
            lastRequest, config>>
uiVars == <<selectionState>>
\* the state outside the two managers
fsVars == <<planDirs, files, inFlight>>
appVars == <<currentMode, appState>>
restVars == <<uiVars, fsVars, appVars>>
vars == <<enabled, currentPhase, planFile, phaseProgress, emitted, call,
          questionQueue, currentQuestion, answeredQuestions, completed, context,
          lastRequest, config, selectionState, planDirs, files, inFlight,
          currentMode, appState>>

(***************************************************************************)
(* Bounds of the model.                                                    *)
(***************************************************************************)
MaxClock == 1       \* new Date() reads a time in 0..MaxClock
MaxLog == 1         \* steps and notes recorded over all phases
MaxWords == 2       \* words of a generated request text

NULL == [null |-> TRUE]      \* null where an object is expected
NONE == "<none>"             \* null or undefined where a string is expected

\* the application's state before plan mode is entered
InitialAppState ==
    [planningEnabled |-> FALSE, planningPhase |-> NONE, planFile |-> NULL,
     developmentMode |-> "normal"]

(***************************************************************************)
(* planning/types.ts                                                       *)
(***************************************************************************)
PLANNING_PHASE_ORDER ==
    <<"initial_understanding", "design", "review", "final_plan", "exit">>

PlanningPhase == {PLANNING_PHASE_ORDER[i] : i \in DOMAIN PLANNING_PHASE_ORDER}

\* the table with write_plan_file left in the review entry
PHASE_ALLOWED_TOOLS_WriteInReview ==
    [initial_understanding |->
        <<"read_file", "find_files", "search_file_contents", "list_directory">>,
     design |->
        <<"read_file", "find_files", "search_file_contents", "list_directory",
          "write_plan_file">>,
     review |->
        <<"read_file", "find_files", "search_file_contents", "list_directory",
          "write_plan_file">>,
     final_plan |->
        <<"read_file", "find_files", "search_file_contents", "list_directory">>,
     exit |-> <<>>]

PHASE_ALLOWED_TOOLS ==
    [initial_understanding |->
        <<"read_file", "find_files", "search_file_contents", "list_directory">>,
     design |->
        <<"read_file", "find_files", "search_file_contents", "list_directory",
          "write_plan_file">>,
     review |->
        <<"read_file", "find_files", "search_file_contents", "list_directory">>,
     final_plan |->
        <<"read_file", "find_files", "search_file_contents", "list_directory">>,
     exit |-> <<>>]

\* Array.prototype.includes
includes(arr, x) == \E i \in DOMAIN arr : arr[i] = x

\* Array.prototype.indexOf, 0-based, -1 when absent
indexOf(arr, x) ==
    IF includes(arr, x)
    THEN (CHOOSE i \in DOMAIN arr :
            arr[i] = x /\ \A j \in DOMAIN arr : arr[j] = x => i <= j) - 1
    ELSE -1

createInitialPlanningState ==
    [currentPhase |-> "initial_understanding",
     planFile |-> NULL,
     enabled |-> FALSE,
     phaseProgress |->
        [p \in PlanningPhase |-> [completed |-> FALSE, steps |-> <<>>, notes |-> NONE]]]

\* the lookup made with a fixed phase instead of the given one
isToolAllowedInPhase_IgnoresPhase(toolName, phase) ==
    includes(PHASE_ALLOWED_TOOLS["design"], toolName)

isToolAllowedInPhase(toolName, phase) ==
    includes(PHASE_ALLOWED_TOOLS[phase], toolName)

\* the successor computed modulo the number of phases
getNextPhase_Wrap(phase) ==
    LET currentIndex == indexOf(PLANNING_PHASE_ORDER, phase)
    IN  IF currentIndex = -1
        THEN NONE
        ELSE PLANNING_PHASE_ORDER[((currentIndex + 1) % Len(PLANNING_PHASE_ORDER)) + 1]

\* the next phase, or NONE after the last one
getNextPhase(phase) ==
    LET currentIndex == indexOf(PLANNING_PHASE_ORDER, phase)
    IN  IF currentIndex = -1 \/ currentIndex = Len(PLANNING_PHASE_ORDER) - 1
        THEN NONE
        ELSE PLANNING_PHASE_ORDER[(currentIndex + 1) + 1]

\* any later phase accepted
canTransitionToPhase_AnyForward(from, to) ==
    indexOf(PLANNING_PHASE_ORDER, to) > indexOf(PLANNING_PHASE_ORDER, from)

\* the current phase accepted as well as its successor
canTransitionToPhase_SameOrNext(from, to) ==
    \/ indexOf(PLANNING_PHASE_ORDER, to) = indexOf(PLANNING_PHASE_ORDER, from)
    \/ indexOf(PLANNING_PHASE_ORDER, to) = indexOf(PLANNING_PHASE_ORDER, from) + 1

canTransitionToPhase(from, to) ==
    indexOf(PLANNING_PHASE_ORDER, to) = indexOf(PLANNING_PHASE_ORDER, from) + 1

(***************************************************************************)
(* Inputs of the calls.                                                    *)
(***************************************************************************)
\* tool names a dispatcher may ask about: the five plan-mode tools and others
ToolNames ==
    {"read_file", "find_files", "search_file_contents", "list_directory",
     "write_plan_file", "string_replace", "bash"}

Slugs == {"a1b2c3d4e5f6"}                          \* randomBytes(6).toString('hex')
UUIDs == {"7c9e6679-7425-40de-944b-e07fc1f90ae7"}  \* randomUUID()
UserRequests == {"add login"}
StepTexts == {"read src"}
NoteTexts == {"note"}
ClarificationKeys == {"database-choice"}
ClarificationValues == {"sqlite"}

\* Partial<Omit<PlanFile, 'id' | 'slug' | 'createdAt'>>: the updates tried
\* fill in the plan body and leave the phase field to the manager
PlanUpdates ==
    {[implementationPlan |-> "1. do it", filesToModify |-> <<"src/a.ts">>,
      verificationSteps |-> <<"run tests">>]}

Event(type, phase, plan) == [type |-> type, phase |-> phase, plan |-> plan]
Call(op, result) == [op |-> op, result |-> result]

\* the number of steps and notes held in a progress map
LogSize(progress) ==
    LET RECURSIVE Sum(_)
        Sum(S) == IF S = {} THEN 0
                  ELSE LET p == CHOOSE q \in S : TRUE
                       IN  Len(progress[p].steps)
                           + (IF progress[p].notes = NONE THEN 0 ELSE 1)
                           + Sum(S \ {p})
    IN  Sum(PlanningPhase)

\* the larger of two times
Later(a, b) == IF a >= b THEN a ELSE b

\* the latest time held in a map of answers
RECURSIVE LatestAnswer(_)
LatestAnswer(answers) ==
    IF answers = <<>> THEN 0
    ELSE Later(answers[Len(answers)][2].timestamp,
               LatestAnswer(SubSeq(answers, 1, Len(answers) - 1)))

\* new Date(): the clock does not run backwards, so a reading is no earlier
\* than any time already recorded
DateNow ==
    {t \in 0..MaxClock :
        /\ planFile # NULL => t >= planFile.updatedAt
        /\ t >= LatestAnswer(answeredQuestions)}

\* planning/questions/types.ts: the configuration a QuestionManager starts with
DEFAULT_QUESTION_CONFIG == [maxQuestions |-> 10, allowSkip |-> TRUE]

(***************************************************************************)
(* PlanningManager (planning-manager.ts)                                   *)
(***************************************************************************)
Init ==
    /\ enabled = createInitialPlanningState.enabled
    /\ currentPhase = createInitialPlanningState.currentPhase
    /\ planFile = createInitialPlanningState.planFile
    /\ phaseProgress = createInitialPlanningState.phaseProgress
    /\ emitted = <<>>
    /\ call = Call("constructor", "void")
    /\ questionQueue = <<>>
    /\ currentQuestion = NULL
    /\ answeredQuestions = <<>>
    /\ completed = FALSE
    /\ context = NULL
    /\ lastRequest = <<>>
    /\ selectionState = [selectedIndices |-> <<>>, isConfirmed |-> FALSE]
    /\ planDirs = {}
    /\ files = <<>>
    /\ inFlight = <<>>
    /\ config = DEFAULT_QUESTION_CONFIG
    /\ currentMode = "normal"
    /\ appState = InitialAppState

\* enable without its test of enabled
enable_AlwaysResets ==
    /\ UNCHANGED <<qmVars, restVars>>
    /\ call' = Call("enable", "void")
    /\ enabled' = TRUE
    /\ currentPhase' = "initial_understanding"
    /\ emitted' = <<Event("enabled", NONE, NULL)>>
    /\ UNCHANGED <<planFile, phaseProgress>>

\* enable that starts from a new planning state
enable_ResetsState ==
    /\ UNCHANGED <<qmVars, restVars>>
    /\ call' = Call("enable", "void")
    /\ IF enabled
       THEN /\ emitted' = <<>>
            /\ UNCHANGED pmState
       ELSE /\ enabled' = TRUE
            /\ currentPhase' = "initial_understanding"
            /\ emitted' = <<Event("enabled", NONE, NULL)>>
            /\ planFile' = createInitialPlanningState.planFile
            /\ phaseProgress' = createInitialPlanningState.phaseProgress

enable ==
    /\ UNCHANGED <<qmVars, restVars>>
    /\ call' = Call("enable", "void")
    /\ IF enabled
       THEN /\ emitted' = <<>>
            /\ UNCHANGED pmState
       ELSE /\ enabled' = TRUE
            /\ currentPhase' = "initial_understanding"
            /\ emitted' = <<Event("enabled", NONE, NULL)>>
            /\ UNCHANGED <<planFile, phaseProgress>>

\* disable that resets the flag and the phase only
disable_KeepsPlanAndProgress ==
    /\ UNCHANGED <<qmVars, restVars>>
    /\ call' = Call("disable", "void")
    /\ IF ~enabled
       THEN /\ emitted' = <<>>
            /\ UNCHANGED pmState
       ELSE /\ enabled' = createInitialPlanningState.enabled
            /\ currentPhase' = createInitialPlanningState.currentPhase
            /\ UNCHANGED <<planFile, phaseProgress>>
            /\ emitted' = <<Event("disabled", NONE, NULL)>>

disable ==
    /\ UNCHANGED <<qmVars, restVars>>
    /\ call' = Call("disable", "void")
    /\ IF ~enabled
       THEN /\ emitted' = <<>>
            /\ UNCHANGED pmState
       ELSE /\ enabled' = createInitialPlanningState.enabled
            /\ currentPhase' = createInitialPlanningState.currentPhase
            /\ planFile' = createInitialPlanningState.planFile
            /\ phaseProgress' = createInitialPlanningState.phaseProgress
            /\ emitted' = <<Event("disabled", NONE, NULL)>>

\* the plan stamped with updatedAt only
PlanAfterPhaseChange_KeepsPhase(phase, now) ==
    IF planFile # NULL
    THEN [planFile EXCEPT !.updatedAt = now]
    ELSE planFile

\* the plan with its phase set and updatedAt stamped, when a plan exists
PlanAfterPhaseChange(phase, now) ==
    IF planFile # NULL
    THEN [planFile EXCEPT !.phase = phase, !.updatedAt = now]
    ELSE planFile

\* phaseChanged raised before planUpdated
EmitAfterPhaseChange_PhaseFirst(phase, now) ==
    <<Event("phaseChanged", phase, NULL)>>
    \o (IF planFile # NULL
        THEN <<Event("planUpdated", NONE, PlanAfterPhaseChange(phase, now))>>
        ELSE <<>>)

\* planUpdated, when a plan exists, and then phaseChanged
EmitAfterPhaseChange(phase, now) ==
    (IF planFile # NULL
     THEN <<Event("planUpdated", NONE, PlanAfterPhaseChange(phase, now))>>
     ELSE <<>>)
    \o <<Event("phaseChanged", phase, NULL)>>

transitionToNextPhase ==
    /\ UNCHANGED <<qmVars, restVars>>
    /\ IF ~enabled
       THEN /\ call' = Call("transitionToNextPhase", "false")
            /\ emitted' = <<>>
            /\ UNCHANGED pmState
       ELSE LET marked == [phaseProgress EXCEPT ![currentPhase].completed = TRUE]
                nextPhase == getNextPhase(currentPhase)
            IN  /\ phaseProgress' = marked
                /\ UNCHANGED enabled
                /\ IF nextPhase = NONE
                   THEN /\ call' = Call("transitionToNextPhase", "false")
                        /\ emitted' = <<>>
                        /\ UNCHANGED <<currentPhase, planFile>>
                   ELSE /\ call' = Call("transitionToNextPhase", "true")
                        /\ currentPhase' = nextPhase
                        /\ \E now \in DateNow :
                              /\ planFile' = PlanAfterPhaseChange(nextPhase, now)
                              /\ emitted' = EmitAfterPhaseChange(nextPhase, now)

\* setPhase that marks the phase it leaves completed
setPhase_MarksCompleted(phase) ==
    /\ UNCHANGED <<qmVars, restVars>>
    /\ IF ~enabled
       THEN /\ call' = Call("setPhase", "void")
            /\ emitted' = <<>>
            /\ UNCHANGED pmState
       ELSE IF ~canTransitionToPhase(currentPhase, phase)
       THEN /\ call' = Call("setPhase", "error")
            /\ emitted' = <<>>
            /\ UNCHANGED pmState
       ELSE /\ call' = Call("setPhase", "void")
            /\ currentPhase' = phase
            /\ phaseProgress' = [phaseProgress EXCEPT ![currentPhase].completed = TRUE]
            /\ \E now \in DateNow :
                  /\ planFile' = PlanAfterPhaseChange(phase, now)
                  /\ emitted' = EmitAfterPhaseChange(phase, now)
            /\ UNCHANGED enabled

\* setPhase without its test of enabled
setPhase_NoEnabledCheck(phase) ==
    /\ UNCHANGED <<qmVars, restVars>>
    /\ IF ~canTransitionToPhase(currentPhase, phase)
       THEN /\ call' = Call("setPhase", "error")
            /\ emitted' = <<>>
            /\ UNCHANGED pmState
       ELSE /\ call' = Call("setPhase", "void")
            /\ currentPhase' = phase
            /\ \E now \in DateNow :
                  /\ planFile' = PlanAfterPhaseChange(phase, now)
                  /\ emitted' = EmitAfterPhaseChange(phase, now)
            /\ UNCHANGED <<enabled, phaseProgress>>

setPhase(phase) ==
    /\ UNCHANGED <<qmVars, restVars>>
    /\ IF ~enabled
       THEN /\ call' = Call("setPhase", "void")
            /\ emitted' = <<>>
            /\ UNCHANGED pmState
       ELSE IF ~canTransitionToPhase(currentPhase, phase)
       THEN /\ call' = Call("setPhase", "error")
            /\ emitted' = <<>>
            /\ UNCHANGED pmState
       ELSE /\ call' = Call("setPhase", "void")
            /\ currentPhase' = phase
            /\ \E now \in DateNow :
                  /\ planFile' = PlanAfterPhaseChange(phase, now)
                  /\ emitted' = EmitAfterPhaseChange(phase, now)
            /\ UNCHANGED <<enabled, phaseProgress>>

\* the query without its test of enabled
isToolAllowed_NoEnabledCheck(toolName) ==
    isToolAllowedInPhase(toolName, currentPhase)

\* the query isToolAllowed(toolName) on the current state
isToolAllowed(toolName) ==
    IF ~enabled THEN TRUE ELSE isToolAllowedInPhase(toolName, currentPhase)

\* the list of the first phase returned whatever the phase
getAllowedTools_FirstPhase ==
    IF ~enabled THEN <<>> ELSE PHASE_ALLOWED_TOOLS[PLANNING_PHASE_ORDER[1]]

\* the list of the current phase, whether planning is enabled or not
getAllowedTools_NoEnabledCheck == PHASE_ALLOWED_TOOLS[currentPhase]

\* the query getAllowedTools() on the current state
getAllowedTools ==
    IF ~enabled THEN <<>> ELSE PHASE_ALLOWED_TOOLS[currentPhase]

addStep(step) ==
    /\ UNCHANGED <<qmVars, restVars>>
    /\ LogSize(phaseProgress) < MaxLog
    /\ phaseProgress' =
          [phaseProgress EXCEPT ![currentPhase].steps = Append(@, step)]
    /\ call' = Call("addStep", "void")
    /\ emitted' = <<>>
    /\ UNCHANGED <<enabled, currentPhase, planFile>>

setNotes(notes) ==
    /\ UNCHANGED <<qmVars, restVars>>
    /\ phaseProgress[currentPhase].notes # NONE \/ LogSize(phaseProgress) < MaxLog
    /\ phaseProgress' = [phaseProgress EXCEPT ![currentPhase].notes = notes]
    /\ call' = Call("setNotes", "void")
    /\ emitted' = <<>>
    /\ UNCHANGED <<enabled, currentPhase, planFile>>

\* the record createPlanFile makes
NewPlanFile(userRequest, slug, uuid, now) ==
    [id |-> uuid,
     slug |-> slug,
     createdAt |-> now,
     updatedAt |-> now,
     phase |-> currentPhase,
     userRequest |-> userRequest,
     clarifications |-> <<>>,
     implementationPlan |-> "",
     filesToModify |-> <<>>,
     verificationSteps |-> <<>>]

createPlanFile(userRequest, slug, uuid, now) ==
    LET plan == NewPlanFile(userRequest, slug, uuid, now)
    IN  /\ planFile' = plan
        /\ emitted' = <<Event("planCreated", NONE, plan)>>
        /\ call' = Call("createPlanFile", "void")
        /\ UNCHANGED <<qmVars, restVars>>
        /\ UNCHANGED <<enabled, currentPhase, phaseProgress>>

\* {...planFile, ...updates, updatedAt: new Date()}
MergePlan(plan, updates, now) ==
    [[f \in DOMAIN plan |-> IF f \in DOMAIN updates THEN updates[f] ELSE plan[f]]
        EXCEPT !.updatedAt = now]

updatePlanFile(updates) ==
    /\ UNCHANGED <<qmVars, restVars>>
    /\ call' = Call("updatePlanFile", "void")
    /\ IF planFile = NULL
       THEN /\ emitted' = <<>>
            /\ UNCHANGED planFile
       ELSE \E now \in DateNow :
                /\ planFile' = MergePlan(planFile, updates, now)
                /\ emitted' =
                      <<Event("planUpdated", NONE, MergePlan(planFile, updates, now))>>
    /\ UNCHANGED <<enabled, currentPhase, phaseProgress>>

clearPlanFile ==
    /\ UNCHANGED <<qmVars, restVars>>
    /\ planFile' = NULL
    /\ call' = Call("clearPlanFile", "void")
    /\ emitted' = <<>>
    /\ UNCHANGED <<enabled, currentPhase, phaseProgress>>

\* clarifications[key] = value on a map held as a sequence of key/value pairs
SetKey(map, key, value) ==
    IF \E i \in DOMAIN map : map[i][1] = key
    THEN [i \in DOMAIN map |-> IF map[i][1] = key THEN <<key, value>> ELSE map[i]]
    ELSE Append(map, <<key, value>>)

addClarification(key, value) ==
    /\ UNCHANGED <<qmVars, restVars>>
    /\ call' = Call("addClarification", "void")
    /\ IF planFile = NULL
       THEN /\ emitted' = <<>>
            /\ UNCHANGED planFile
       ELSE \E now \in DateNow :
                LET plan == [planFile EXCEPT
                                !.clarifications = SetKey(@, key, value),
                                !.updatedAt = now]
                IN  /\ planFile' = plan
                    /\ emitted' = <<Event("planUpdated", NONE, plan)>>
    /\ UNCHANGED <<enabled, currentPhase, phaseProgress>>

Next ==
    \/ enable
    \/ disable
    \/ transitionToNextPhase
    \/ \E phase \in PlanningPhase : setPhase(phase)
    \/ \E step \in StepTexts : addStep(step)
    \/ \E notes \in NoteTexts : setNotes(notes)
    \/ \E r \in UserRequests, s \in Slugs, u \in UUIDs, now \in DateNow :
            createPlanFile(r, s, u, now)
    \/ \E updates \in PlanUpdates : updatePlanFile(updates)
    \/ clearPlanFile
    \/ \E k \in ClarificationKeys, v \in ClarificationValues : addClarification(k, v)

Spec == Init /\ [][Next]_vars

(***************************************************************************)
(* Text.  A string is the sequence of its characters, so that              *)
(* String.prototype.includes and toLowerCase are computed on the text.     *)
(***************************************************************************)
\* the keywords of the templates, by name
T ==
    [optimize |-> <<"o","p","t","i","m","i","z","e">>,
     performance |-> <<"p","e","r","f","o","r","m","a","n","c","e">>,
     fast |-> <<"f","a","s","t">>,
     efficient |-> <<"e","f","f","i","c","i","e","n","t">>,
     error_handling |-> <<"e","r","r","o","r"," ","h","a","n","d","l","i","n","g">>,
     robust |-> <<"r","o","b","u","s","t">>,
     reliable |-> <<"r","e","l","i","a","b","l","e">>,
     build |-> <<"b","u","i","l","d">>,
     create |-> <<"c","r","e","a","t","e">>,
     implement |-> <<"i","m","p","l","e","m","e","n","t">>,
     architecture |-> <<"a","r","c","h","i","t","e","c","t","u","r","e">>,
     structure |-> <<"s","t","r","u","c","t","u","r","e">>,
     database |-> <<"d","a","t","a","b","a","s","e">>,
     storage |-> <<"s","t","o","r","a","g","e">>,
     persistence |-> <<"p","e","r","s","i","s","t","e","n","c","e">>,
     data |-> <<"d","a","t","a">>,
     authentication |-> <<"a","u","t","h","e","n","t","i","c","a","t","i","o","n">>,
     login |-> <<"l","o","g","i","n">>,
     auth |-> <<"a","u","t","h">>,
     user |-> <<"u","s","e","r">>,
     security |-> <<"s","e","c","u","r","i","t","y">>,
     add |-> <<"a","d","d">>,
     develop |-> <<"d","e","v","e","l","o","p">>]
W_Build == <<"B","u","i","l","d">>
SPACE == <<" ">>

\* the end-to-end request of the specification
OptimizeRequest ==
    <<"o","p","t","i","m","i","z","e"," ","p","e","r","f","o","r","m","a","n","c","e"," ","o","f"," ","t","h","e"," ","d","a","t","a","b","a","s","e"," ","l","a","y","e","r">>
RobustRequest == <<"m","a","k","e"," ","i","t"," ","r","o","b","u","s","t",","," ","r","e","l","i","a","b","l","e"," ","a","n","d"," ","f","a","s","t">>
EfficientRequest == <<"r","e","l","i","a","b","l","e"," ","a","n","d"," ","e","f","f","i","c","i","e","n","t">>
AddressRequest == <<"f","i","x"," ","t","h","e"," ","A","d","d","r","e","s","s"," ","f","o","r","m">>
UPPER == <<"A","B","C","D","E","F","G","H","I","J","K","L","M","N","O","P","Q","R","S","T","U","V","W","X","Y","Z">>
LOWER == <<"a","b","c","d","e","f","g","h","i","j","k","l","m","n","o","p","q","r","s","t","u","v","w","x","y","z">>

toLowerCase(s) ==
    [i \in DOMAIN s |->
        IF includes(UPPER, s[i]) THEN LOWER[indexOf(UPPER, s[i]) + 1] ELSE s[i]]

\* String.prototype.includes; Array.prototype.filter is SelectSeq
strIncludes(s, kw) ==
    \E i \in 0..(Len(s) - Len(kw)) : SubSeq(s, i + 1, i + Len(kw)) = kw

(***************************************************************************)
(* planning/questions/types.ts: the template catalogs.  The rendered text  *)
(* of a question is not modelled; options are named by their ids.          *)
(***************************************************************************)
AMBIGUITY_TEMPLATES ==
    <<[id |-> "performance-requirements",
       keywords |-> <<T.optimize, T.performance, T.fast, T.efficient>>,
       options |-> <<"response-time", "memory", "cpu", "database">>,
       allowSkip |-> TRUE],
      [id |-> "error-handling",
       keywords |-> <<T.error_handling, T.robust, T.reliable>>,
       options |-> <<"graceful", "fail-fast", "retry", "circuit-breaker">>,
       allowSkip |-> TRUE]>>

DECISION_TEMPLATES ==
    <<[id |-> "architecture-pattern",
       keywords |-> <<T.build, T.create, T.implement, T.architecture, T.structure>>,
       options |-> <<"monolithic", "microservices", "modular-monolith">>,
       allowMultiple |-> FALSE],
      [id |-> "database-choice",
       keywords |-> <<T.database, T.storage, T.persistence, T.data>>,
       options |-> <<"postgresql", "mongodb", "sqlite">>,
       allowMultiple |-> FALSE],
      [id |-> "authentication-method",
       keywords |-> <<T.authentication, T.login, T.auth, T.user, T.security>>,
       options |-> <<"jwt", "session", "oauth2">>,
       allowMultiple |-> FALSE]>>

CONFIRMATION_TEMPLATES ==
    <<[id |-> "assumptions-confirmation",
       triggers |-> <<T.create, T.build, T.implement>>]>>

(***************************************************************************)
(* The request texts handed to generateQuestions.                          *)
(***************************************************************************)
Vocabulary == <<W_Build, T.database, T.login, T.optimize>>

\* the texts of at most n words of the vocabulary, joined by spaces
RECURSIVE Texts(_)
Texts(n) ==
    IF n = 0 THEN {<<>>}
    ELSE Texts(n - 1)
         \cup {t \o SPACE \o Vocabulary[w] :
                    t \in Texts(n - 1) \ {<<>>}, w \in DOMAIN Vocabulary}
         \cup {Vocabulary[w] : w \in DOMAIN Vocabulary}

Requests ==
    Texts(MaxWords)
    \cup {OptimizeRequest, RobustRequest, AddressRequest, EfficientRequest}

(***************************************************************************)
(* QuestionManager (planning/questions/question-manager.ts)                *)
(***************************************************************************)
\* the templates of a catalog that have a keyword in the lower-cased request
MatchingTemplates(catalog, lowerRequest) ==
    LET Matches(template) ==
            \E k \in DOMAIN template.keywords :
                strIncludes(lowerRequest, template.keywords[k])
    IN  SelectSeq(catalog, Matches)

findMatchingQuestions(userRequest) ==
    LET lowerRequest == toLowerCase(userRequest)
        amb == MatchingTemplates(AMBIGUITY_TEMPLATES, lowerRequest)
        dec == MatchingTemplates(DECISION_TEMPLATES, lowerRequest)
        confirmKeywords == <<T.create, T.build, T.implement, T.add, T.develop>>
        confirmTemplates ==
            LET IsAssumptions(t) == t.id = "assumptions-confirmation"
            IN  SelectSeq(CONFIRMATION_TEMPLATES, IsAssumptions)
    IN  [i \in DOMAIN amb |->
            [id |-> amb[i].id, type |-> "ambiguity",
             options |-> amb[i].options, allowSkip |-> TRUE]]
        \o
        [i \in DOMAIN dec |->
            [id |-> dec[i].id, type |-> "decision",
             options |-> dec[i].options,
             allowMultiple |-> dec[i].allowMultiple, allowSkip |-> TRUE]]
        \o
        (IF /\ \E k \in DOMAIN confirmKeywords :
                    strIncludes(lowerRequest, confirmKeywords[k])
            /\ confirmTemplates # <<>>
         THEN <<[id |-> confirmTemplates[1].id, type |-> "confirmation",
                 allowSkip |-> FALSE]>>
         ELSE <<>>)

\* the number of keywords of the question's template found in the request
getKeywordCount(questionId, userRequest) ==
    LET lowerRequest == toLowerCase(userRequest)
        Found(kw) == strIncludes(lowerRequest, kw)
        HasId(t) == t.id = questionId
        ambTemplate == SelectSeq(AMBIGUITY_TEMPLATES, HasId)
        decTemplate == SelectSeq(DECISION_TEMPLATES, HasId)
    IN  IF ambTemplate # <<>> THEN Len(SelectSeq(ambTemplate[1].keywords, Found))
        ELSE IF decTemplate # <<>> THEN Len(SelectSeq(decTemplate[1].keywords, Found))
        ELSE 0

\* the comparator with its operands exchanged
sortByKeywordMatch_Ascending(a, b, userRequest) ==
    getKeywordCount(a.id, userRequest) - getKeywordCount(b.id, userRequest)

\* the comparator handed to Array.prototype.sort
sortByKeywordMatch(a, b, userRequest) ==
    getKeywordCount(b.id, userRequest) - getKeywordCount(a.id, userRequest)

\* Array.prototype.sort with sortByKeywordMatch: a stable sort
RECURSIVE sort(_, _)
sort(arr, userRequest) ==
    IF arr = <<>> THEN <<>>
    ELSE LET front == sort(SubSeq(arr, 1, Len(arr) - 1), userRequest)
             x == arr[Len(arr)]
             \* x goes after every element that does not sort after it
             after == {i \in DOMAIN front :
                         sortByKeywordMatch(front[i], x, userRequest) > 0}
             pos == IF after = {} THEN Len(front) + 1
                    ELSE CHOOSE i \in after : \A j \in after : i <= j
         IN  SubSeq(front, 1, pos - 1) \o <<x>> \o SubSeq(front, pos, Len(front))

prioritizeQuestions(questions, userRequest) ==
    LET IsConfirmation(q) == q.type = "confirmation"
        IsDecision(q) == q.type = "decision"
        IsAmbiguity(q) == q.type = "ambiguity"
        confirmationQuestions == SelectSeq(questions, IsConfirmation)
        decisionQuestions == SelectSeq(questions, IsDecision)
        ambiguityQuestions == SelectSeq(questions, IsAmbiguity)
    IN  confirmationQuestions
        \o sort(decisionQuestions, userRequest)
        \o sort(ambiguityQuestions, userRequest)

\* Array.prototype.slice(0, n)
\* slice that takes the whole array
slice0_NoLimit(arr, n) == arr

slice0(arr, n) == SubSeq(arr, 1, IF n < Len(arr) THEN n ELSE Len(arr))

\* #prioritizeQuestions(#findMatchingQuestions(r), r), tabulated once for
\* every request text of the model
PrioritizedFor ==
    [r \in Requests |-> prioritizeQuestions(findMatchingQuestions(r), r)]

generateQuestions(userRequest, projectFiles) ==
    LET prioritizedQuestions == PrioritizedFor[userRequest]
        queue == slice0(prioritizedQuestions, config.maxQuestions)
    IN  /\ context' = IF context = NULL
                      THEN [userRequest |-> userRequest, projectFiles |-> projectFiles]
                      ELSE context
        /\ questionQueue' = queue
        /\ IF Len(queue) > 0
           THEN /\ currentQuestion' = queue[1]
                /\ UNCHANGED completed
           ELSE /\ completed' = TRUE
                /\ UNCHANGED currentQuestion
        /\ lastRequest' = <<userRequest>>
        /\ call' = Call("generateQuestions", "void")
        /\ UNCHANGED <<answeredQuestions, config>>
        /\ UNCHANGED <<pmVars, restVars>>

\* Array.prototype.findIndex on the question ids, 0-based, -1 when absent
findIndexById(queue, id) ==
    LET hits == {i \in DOMAIN queue : queue[i].id = id}
    IN  IF hits = {} THEN -1 ELSE (CHOOSE i \in hits : \A j \in hits : i <= j) - 1

\* #moveToNextQuestion that goes back to the head of the queue
moveToNextQuestion_Restart ==
    LET currentIndex ==
            IF currentQuestion = NULL THEN -1
            ELSE findIndexById(questionQueue, currentQuestion.id)
    IN  IF currentIndex >= 0 /\ currentIndex < Len(questionQueue) - 1
        THEN [currentQuestion |-> questionQueue[1], completed |-> completed]
        ELSE [currentQuestion |-> NULL, completed |-> TRUE]

\* the current question and the completed flag after #moveToNextQuestion
moveToNextQuestion ==
    LET currentIndex ==
            IF currentQuestion = NULL THEN -1
            ELSE findIndexById(questionQueue, currentQuestion.id)
    IN  IF currentIndex >= 0 /\ currentIndex < Len(questionQueue) - 1
        THEN [currentQuestion |-> questionQueue[(currentIndex + 1) + 1],
              completed |-> completed]
        ELSE [currentQuestion |-> NULL, completed |-> TRUE]

\* submitAnswer that takes the answered question out of the queue
submitAnswer_ShiftsQueue(answer) ==
    /\ UNCHANGED <<context, lastRequest, config>>
    /\ UNCHANGED <<pmVars, restVars>>
    /\ IF currentQuestion = NULL \/ answer.questionId # currentQuestion.id
       THEN /\ call' = Call("submitAnswer", "error")
            /\ UNCHANGED <<questionQueue, currentQuestion, answeredQuestions,
                           completed>>
       ELSE /\ answeredQuestions' = SetKey(answeredQuestions, answer.questionId, answer)
            /\ questionQueue' =
                  LET Other(q) == q.id # answer.questionId
                  IN  SelectSeq(questionQueue, Other)
            /\ currentQuestion' = moveToNextQuestion.currentQuestion
            /\ completed' = moveToNextQuestion.completed
            /\ call' = Call("submitAnswer", "void")

\* submitAnswer without the comparison of the question ids
submitAnswer_NoIdCheck(answer) ==
    /\ UNCHANGED <<questionQueue, context, lastRequest, config>>
    /\ UNCHANGED <<pmVars, restVars>>
    /\ IF currentQuestion = NULL
       THEN /\ call' = Call("submitAnswer", "error")
            /\ UNCHANGED <<currentQuestion, answeredQuestions, completed>>
       ELSE /\ answeredQuestions' = SetKey(answeredQuestions, answer.questionId, answer)
            /\ currentQuestion' = moveToNextQuestion.currentQuestion
            /\ completed' = moveToNextQuestion.completed
            /\ call' = Call("submitAnswer", "void")

submitAnswer(answer) ==
    /\ UNCHANGED <<questionQueue, context, lastRequest, config>>
    /\ UNCHANGED <<pmVars, restVars>>
    /\ IF currentQuestion = NULL
       THEN /\ call' = Call("submitAnswer", "error")
            /\ UNCHANGED <<currentQuestion, answeredQuestions, completed>>
       ELSE IF answer.questionId # currentQuestion.id
       THEN /\ call' = Call("submitAnswer", "error")
            /\ UNCHANGED <<currentQuestion, answeredQuestions, completed>>
       ELSE /\ answeredQuestions' = SetKey(answeredQuestions, answer.questionId, answer)
            /\ currentQuestion' = moveToNextQuestion.currentQuestion
            /\ completed' = moveToNextQuestion.completed
            /\ call' = Call("submitAnswer", "void")

\* skipCurrentQuestion without the test of allowSkip
skipCurrentQuestion_IgnoresAllowSkip ==
    /\ UNCHANGED <<questionQueue, context, lastRequest, config>>
    /\ UNCHANGED <<pmVars, restVars>>
    /\ IF currentQuestion = NULL
       THEN /\ call' = Call("skipCurrentQuestion", "error")
            /\ UNCHANGED <<currentQuestion, answeredQuestions, completed>>
       ELSE /\ \E now \in DateNow :
                  answeredQuestions' =
                      SetKey(answeredQuestions, currentQuestion.id,
                             [questionId |-> currentQuestion.id,
                              selectedOptionIds |-> <<>>,
                              timestamp |-> now])
            /\ currentQuestion' = moveToNextQuestion.currentQuestion
            /\ completed' = moveToNextQuestion.completed
            /\ call' = Call("skipCurrentQuestion", "void")

\* skipCurrentQuestion that moves on without recording the empty answer
skipCurrentQuestion_RecordsNothing ==
    /\ UNCHANGED <<questionQueue, context, lastRequest, config>>
    /\ UNCHANGED <<pmVars, restVars>>
    /\ IF currentQuestion = NULL
       THEN /\ call' = Call("skipCurrentQuestion", "error")
            /\ UNCHANGED <<currentQuestion, answeredQuestions, completed>>
       ELSE IF ~currentQuestion.allowSkip
       THEN /\ call' = Call("skipCurrentQuestion", "error")
            /\ UNCHANGED <<currentQuestion, answeredQuestions, completed>>
       ELSE /\ UNCHANGED answeredQuestions
            /\ currentQuestion' = moveToNextQuestion.currentQuestion
            /\ completed' = moveToNextQuestion.completed
            /\ call' = Call("skipCurrentQuestion", "void")

skipCurrentQuestion ==
    /\ UNCHANGED <<questionQueue, context, lastRequest, config>>
    /\ UNCHANGED <<pmVars, restVars>>
    /\ IF currentQuestion = NULL
       THEN /\ call' = Call("skipCurrentQuestion", "error")
            /\ UNCHANGED <<currentQuestion, answeredQuestions, completed>>
       ELSE IF ~currentQuestion.allowSkip
       THEN /\ call' = Call("skipCurrentQuestion", "error")
            /\ UNCHANGED <<currentQuestion, answeredQuestions, completed>>
       ELSE /\ \E now \in DateNow :
                  answeredQuestions' =
                      SetKey(answeredQuestions, currentQuestion.id,
                             [questionId |-> currentQuestion.id,
                              selectedOptionIds |-> <<>>,
                              timestamp |-> now])
            /\ currentQuestion' = moveToNextQuestion.currentQuestion
            /\ completed' = moveToNextQuestion.completed
            /\ call' = Call("skipCurrentQuestion", "void")

reset ==
    /\ questionQueue' = <<>>
    /\ currentQuestion' = NULL
    /\ answeredQuestions' = <<>>
    /\ completed' = FALSE
    /\ context' = NULL
    /\ lastRequest' = <<>>
    /\ UNCHANGED config
    /\ call' = Call("reset", "void")
    /\ UNCHANGED <<pmVars, restVars>>

(***************************************************************************)
(* Inputs of the QuestionManager calls.                                    *)
(***************************************************************************)
\* the requests of the answering sessions
SessionRequests == {<<>>, OptimizeRequest, W_Build \o SPACE \o T.database}

ProjectFiles == {<<>>}

\* the ids of the questions the session requests produce
QuestionIds ==
    UNION {{PrioritizedFor[r][i].id : i \in DOMAIN PrioritizedFor[r]} :
              r \in SessionRequests}

\* the answers a caller may submit: to a question of a session and to none
Answers ==
    {[questionId |-> id, selectedOptionIds |-> <<"sqlite">>, timestamp |-> now] :
        id \in QuestionIds \cup {"unknown-question"}, now \in DateNow}

\* generating the queue for any request
NextGen ==
    \/ \E r \in Requests, f \in ProjectFiles : generateQuestions(r, f)
    \/ reset

SpecGen == Init /\ [][NextGen]_vars

\* the partial configurations given to the constructor
PartialConfigs == {[maxQuestions |-> n] : n \in {0, 1, 2, 10}}

\* new QuestionManager(undefined, partial)
QuestionManager(partial) ==
    /\ questionQueue' = <<>>
    /\ currentQuestion' = NULL
    /\ answeredQuestions' = <<>>
    /\ completed' = FALSE
    /\ context' = NULL
    /\ config' = partial @@ DEFAULT_QUESTION_CONFIG
    /\ lastRequest' = <<>>
    /\ call' = Call("constructor", "void")
    /\ UNCHANGED <<pmVars, restVars>>

\* generating the queue with managers of any configuration
NextConfig ==
    \/ \E partial \in PartialConfigs : QuestionManager(partial)
    \/ \E r \in Requests, f \in ProjectFiles : generateQuestions(r, f)
    \/ reset

SpecConfig == Init /\ [][NextConfig]_vars

\* a question session
NextQ ==
    \/ \E r \in SessionRequests, f \in ProjectFiles : generateQuestions(r, f)
    \/ \E a \in Answers : submitAnswer(a)
    \/ skipCurrentQuestion
    \/ reset

SpecQ == Init /\ [][NextQ]_vars

\* the getters totalQuestions, answeredCount and remainingCount
totalQuestions == Len(questionQueue)

answeredCount == Len(answeredQuestions)

remainingCount == Len(questionQueue) - Len(answeredQuestions)

\* question sessions of a manager that is new or was reset when its
\* questions are generated: context is null exactly until generateQuestions
NextSession ==
    \/ \E r \in SessionRequests, f \in ProjectFiles :
            context = NULL /\ generateQuestions(r, f)
    \/ \E a \in Answers : submitAnswer(a)
    \/ skipCurrentQuestion
    \/ reset

SpecSession == Init /\ [][NextSession]_vars

(***************************************************************************)
(* components/interactive-question.tsx with the question handlers of       *)
(* hooks/usePlanningHandlers.  planningEnabled of the application follows  *)
(* PlanningManager.enabled through the hook's effect.                      *)
(***************************************************************************)
\* the value useState starts from when the component is mounted
InitialSelection == [selectedIndices |-> <<>>, isConfirmed |-> FALSE]

\* an optional boolean field of a question; undefined is falsy
Flag(question, field) == field \in DOMAIN question /\ question[field]

\* whether question.options is defined
HasOptions(question) == "options" \in DOMAIN question

\* the component is rendered while this holds
isQuestionMode == appState.planningEnabled /\ currentQuestion # NULL

\* the hook's listeners of phaseChanged, planCreated and planUpdated, run
\* for the events in the order of their emission
RECURSIVE Listen(_, _)
Listen(app, events) ==
    IF events = <<>> THEN app
    ELSE LET event == Head(events)
             heard ==
                 IF event.type = "phaseChanged"
                 THEN [app EXCEPT !.planningPhase = event.phase]
                 ELSE IF event.type \in {"planCreated", "planUpdated"}
                 THEN [app EXCEPT !.planFile = event.plan]
                 ELSE app
         IN  Listen(heard, Tail(events))

\* enablePlanningMode, after which the effect enables the manager
enablePlanningMode ==
    /\ call' = Call("enablePlanningMode", "void")
    /\ appState' = [appState EXCEPT !.planningEnabled = TRUE,
                                    !.developmentMode = "plan"]
    /\ IF enabled
       THEN /\ emitted' = <<>>
            /\ UNCHANGED pmState
       ELSE /\ enabled' = TRUE
            /\ currentPhase' = "initial_understanding"
            /\ emitted' = <<Event("enabled", NONE, NULL)>>
            /\ UNCHANGED <<planFile, phaseProgress>>
    /\ UNCHANGED <<qmVars, uiVars, fsVars, currentMode>>

\* disablePlanningMode, after which the effect disables the manager and
\* the hook takes a new QuestionManager
disablePlanningMode ==
    /\ appState' = [appState EXCEPT !.planningEnabled = FALSE,
                                    !.planningPhase = NONE,
                                    !.planFile = NULL]
    /\ IF ~enabled
       THEN /\ emitted' = <<>>
            /\ UNCHANGED pmState
       ELSE /\ enabled' = createInitialPlanningState.enabled
            /\ currentPhase' = createInitialPlanningState.currentPhase
            /\ planFile' = createInitialPlanningState.planFile
            /\ phaseProgress' = createInitialPlanningState.phaseProgress
            /\ emitted' = <<Event("disabled", NONE, NULL)>>
    /\ questionQueue' = <<>>
    /\ currentQuestion' = NULL
    /\ answeredQuestions' = <<>>
    /\ completed' = FALSE
    /\ context' = NULL
    /\ lastRequest' = <<>>
    /\ config' = DEFAULT_QUESTION_CONFIG
    /\ UNCHANGED currentMode

\* the digit keys
Digits == 1..9

handleOptionToggle(question, prev, index) ==
    LET Keep(i) == i # index
        newIndices ==
            IF Flag(question, "allowMultiple")
            THEN IF includes(prev.selectedIndices, index)
                 THEN SelectSeq(prev.selectedIndices, Keep)
                 ELSE Append(prev.selectedIndices, index)
            ELSE <<index>>
    IN  [prev EXCEPT !.selectedIndices = newIndices]

\* planningManager.transitionToNextPhase() called by a handler, reading the
\* clock not before `after`
transitionInHandler(after) ==
    IF ~enabled
    THEN /\ emitted' = <<>>
         /\ UNCHANGED pmState
    ELSE LET marked == [phaseProgress EXCEPT ![currentPhase].completed = TRUE]
             nextPhase == getNextPhase(currentPhase)
         IN  /\ phaseProgress' = marked
             /\ UNCHANGED enabled
             /\ IF nextPhase = NONE
                THEN /\ emitted' = <<>>
                     /\ UNCHANGED <<currentPhase, planFile>>
                ELSE /\ currentPhase' = nextPhase
                     /\ \E now \in DateNow :
                           /\ now >= after
                           /\ planFile' = PlanAfterPhaseChange(nextPhase, now)
                           /\ emitted' = EmitAfterPhaseChange(nextPhase, now)

\* the managers' part of handleQuestionAnswer: submitAnswer, then the
\* transition when the questions are completed
handleQuestionAnswer(answer) ==
    /\ UNCHANGED <<questionQueue, context, lastRequest, config>>
    /\ IF currentQuestion = NULL \/ answer.questionId # currentQuestion.id
       THEN /\ UNCHANGED <<currentQuestion, answeredQuestions, completed>>
            /\ emitted' = <<>>
            /\ UNCHANGED pmState
       ELSE /\ answeredQuestions' =
                  SetKey(answeredQuestions, answer.questionId, answer)
            /\ currentQuestion' = moveToNextQuestion.currentQuestion
            /\ completed' = moveToNextQuestion.completed
            /\ IF moveToNextQuestion.completed
               THEN transitionInHandler(answer.timestamp)
               ELSE /\ emitted' = <<>>
                    /\ UNCHANGED pmState
    /\ appState' = Listen(appState, emitted')
    /\ UNCHANGED currentMode

\* the managers' part of handleQuestionSkip; the error of
\* skipCurrentQuestion is caught and shown
handleQuestionSkip ==
    /\ UNCHANGED <<questionQueue, context, lastRequest, config>>
    /\ IF currentQuestion = NULL \/ ~Flag(currentQuestion, "allowSkip")
       THEN /\ UNCHANGED <<currentQuestion, answeredQuestions, completed>>
            /\ emitted' = <<>>
            /\ UNCHANGED pmState
       ELSE \E now \in DateNow :
              /\ answeredQuestions' =
                    SetKey(answeredQuestions, currentQuestion.id,
                           [questionId |-> currentQuestion.id,
                            selectedOptionIds |-> <<>>,
                            timestamp |-> now])
              /\ currentQuestion' = moveToNextQuestion.currentQuestion
              /\ completed' = moveToNextQuestion.completed
              /\ IF moveToNextQuestion.completed
                 THEN transitionInHandler(now)
                 ELSE /\ emitted' = <<>>
                      /\ UNCHANGED pmState
    /\ appState' = Listen(appState, emitted')
    /\ UNCHANGED currentMode

handleQuestionCancel == disablePlanningMode

\* a key the handler does nothing for
KeyIgnored(key) ==
    /\ call' = Call(key, "ignored")
    /\ emitted' = <<>>
    /\ UNCHANGED <<pmState, qmVars, restVars>>

\* the option ids of the selected indices that exist
selectedOptionIds(question, indices) ==
    LET Defined(index) == index + 1 \in DOMAIN question.options
        defined == SelectSeq(indices, Defined)
    IN  [i \in DOMAIN defined |-> question.options[defined[i] + 1]]

\* useInput with key.escape
pressEscape ==
    /\ isQuestionMode
    /\ IF selectionState.isConfirmed
       THEN KeyIgnored("escape")
       ELSE /\ handleQuestionCancel
            /\ selectionState' = InitialSelection
            /\ call' = Call("escape", "onCancel")
            /\ UNCHANGED fsVars

\* useInput with key.return
pressReturn ==
    /\ isQuestionMode
    /\ IF selectionState.isConfirmed
       THEN KeyIgnored("return")
       ELSE IF /\ Flag(currentQuestion, "allowSkip")
               /\ Len(selectionState.selectedIndices) = 0
       THEN /\ handleQuestionSkip
            /\ selectionState' = IF currentQuestion' = NULL
                                 THEN InitialSelection
                                 ELSE selectionState
            /\ call' = Call("return", "onSkip")
            /\ UNCHANGED fsVars
       ELSE IF /\ Len(selectionState.selectedIndices) > 0
               /\ HasOptions(currentQuestion)
               /\ Len(selectedOptionIds(currentQuestion,
                                        selectionState.selectedIndices)) > 0
       THEN /\ \E now \in DateNow :
                  handleQuestionAnswer(
                      [questionId |-> currentQuestion.id,
                       selectedOptionIds |->
                           selectedOptionIds(currentQuestion,
                                             selectionState.selectedIndices),
                       timestamp |-> now])
            /\ selectionState' = IF currentQuestion' = NULL
                                 THEN InitialSelection
                                 ELSE [selectionState EXCEPT !.isConfirmed = TRUE]
            /\ call' = Call("return", "onAnswer")
            /\ UNCHANGED fsVars
       ELSE KeyIgnored("return")

\* useInput with a digit key
pressDigit(num) ==
    /\ isQuestionMode
    /\ IF selectionState.isConfirmed
       THEN KeyIgnored("digit")
       ELSE IF /\ HasOptions(currentQuestion)
               /\ num >= 1
               /\ num <= Len(currentQuestion.options)
       THEN /\ selectionState' =
                  handleOptionToggle(currentQuestion, selectionState, num - 1)
            /\ call' = Call("digit", "toggle")
            /\ emitted' = <<>>
            /\ UNCHANGED <<pmState, qmVars, fsVars, appVars>>
       ELSE KeyIgnored("digit")

\* the question dialog: plan mode is entered, questions are generated, and
\* the user presses keys
NextUI ==
    \/ enablePlanningMode
    \/ \E r \in SessionRequests, f \in ProjectFiles : generateQuestions(r, f)
    \/ pressEscape
    \/ pressReturn
    \/ \E num \in Digits : pressDigit(num)

SpecUI == Init /\ [][NextUI]_vars

(***************************************************************************)
(* The development mode (mode-context): setCurrentMode keeps the planning  *)
(* manager in step with the mode.                                          *)
(***************************************************************************)
DevelopmentMode == {"normal", "auto-accept", "plan"}

\* setCurrentMode that enables for plan mode and never disables
setCurrentMode_NoDisable(mode) ==
    /\ currentMode' = mode
    /\ call' = Call("setCurrentMode", "void")
    /\ IF mode = "plan" /\ ~enabled
       THEN /\ enabled' = TRUE
            /\ currentPhase' = "initial_understanding"
            /\ emitted' = <<Event("enabled", NONE, NULL)>>
            /\ UNCHANGED <<planFile, phaseProgress>>
       ELSE /\ emitted' = <<>>
            /\ UNCHANGED pmState
    /\ UNCHANGED <<qmVars, uiVars, fsVars, appState>>

setCurrentMode(mode) ==
    /\ currentMode' = mode
    /\ call' = Call("setCurrentMode", "void")
    /\ IF mode = "plan"
       THEN IF enabled
            THEN /\ emitted' = <<>>
                 /\ UNCHANGED pmState
            ELSE /\ enabled' = TRUE
                 /\ currentPhase' = "initial_understanding"
                 /\ emitted' = <<Event("enabled", NONE, NULL)>>
                 /\ UNCHANGED <<planFile, phaseProgress>>
       ELSE IF ~enabled
            THEN /\ emitted' = <<>>
                 /\ UNCHANGED pmState
            ELSE /\ enabled' = createInitialPlanningState.enabled
                 /\ currentPhase' = createInitialPlanningState.currentPhase
                 /\ planFile' = createInitialPlanningState.planFile
                 /\ phaseProgress' = createInitialPlanningState.phaseProgress
                 /\ emitted' = <<Event("disabled", NONE, NULL)>>
    /\ UNCHANGED <<qmVars, uiVars, fsVars, appState>>

\* the mode is switched while the planning manager is used
NextMode ==
    \/ \E mode \in DevelopmentMode : setCurrentMode(mode)
    \/ transitionToNextPhase
    \/ \E step \in StepTexts : addStep(step)
    \/ \E r \in UserRequests, s \in Slugs, u \in UUIDs, now \in DateNow :
            createPlanFile(r, s, u, now)

SpecMode == Init /\ [][NextMode]_vars

(***************************************************************************)
(* planning/plan-file.ts: the plan file store.  Paths are tuples of        *)
(* characters; a file is named by its plan directory, slug and extension.  *)
(***************************************************************************)
\* '.nanocoder/plans', with the separator join() puts in front of it
PLAN_DIR ==
    <<"/", ".", "n", "a", "n", "o", "c", "o", "d", "e", "r",
      "/", "p", "l", "a", "n", "s">>
PLAN_MD_EXT == ".plan.md"
PLAN_JSON_EXT == ".plan.json"

\* os.homedir()
homedir == <<"/", "h", "/", "u">>

\* String.prototype.startsWith
startsWith(str, prefix) ==
    /\ Len(prefix) <= Len(str)
    /\ SubSeq(str, 1, Len(prefix)) = prefix

\* replace(/\\/g, '/')
replaceBackslashes(str) ==
    [i \in DOMAIN str |-> IF str[i] = "\\" THEN "/" ELSE str[i]]

isValidProjectDirectory_NoSubdirectoryCheck(cwd) ==
    LET normalizedCwd == replaceBackslashes(cwd)
        normalizedHome == replaceBackslashes(homedir)
    IN  normalizedCwd # normalizedHome

isValidProjectDirectory(cwd) ==
    LET normalizedCwd == replaceBackslashes(cwd)
        normalizedHome == replaceBackslashes(homedir)
    IN  IF normalizedCwd = normalizedHome
        THEN FALSE
        ELSE IF startsWith(normalizedCwd, normalizedHome \o <<"/">>)
        THEN FALSE
        ELSE TRUE

\* path.join / path.resolve on an absolute path: a trailing separator is
\* dropped
RECURSIVE normalize(_)
normalize(p) ==
    IF Len(p) > 1 /\ p[Len(p)] = "/"
    THEN normalize(SubSeq(p, 1, Len(p) - 1))
    ELSE p

getPlanDirectory(cwd) == normalize(cwd) \o PLAN_DIR

getPlanMdPath(cwd, slug) ==
    [dir |-> getPlanDirectory(cwd), slug |-> slug, ext |-> PLAN_MD_EXT]

getPlanJsonPath(cwd, slug) ==
    [dir |-> getPlanDirectory(cwd), slug |-> slug, ext |-> PLAN_JSON_EXT]

\* values of clarifications that JSON does not carry as they are
UNDEFINED == "<undefined>"
NAN == "<NaN>"
JSON_NULL == "<null>"

\* Date.prototype.toISOString for the times of the clock
ISO_STRINGS ==
    <<"1970-01-01T00:00:00.000Z", "1970-01-01T00:00:00.001Z",
      "1970-01-01T00:00:00.002Z", "1970-01-01T00:00:00.003Z">>

toISOString(t) == ISO_STRINGS[t + 1]

\* new Date(isoString).getTime()
newDate(str) == (CHOOSE i \in DOMAIN ISO_STRINGS : ISO_STRINGS[i] = str) - 1

\* JSON.stringify of the clarifications: undefined members are left out and
\* NaN is written as null
stringifyClarifications(map) ==
    LET Kept(entry) == entry[2] # UNDEFINED
        kept == SelectSeq(map, Kept)
    IN  [i \in DOMAIN kept |->
            <<kept[i][1], IF kept[i][2] = NAN THEN JSON_NULL ELSE kept[i][2]>>]

\* JSON.stringify(plan, null, 2): the text of the sidecar
JSONstringify(plan) ==
    [json |-> [plan EXCEPT !.createdAt = toISOString(@),
                               !.updatedAt = toISOString(@),
                               !.clarifications = stringifyClarifications(@)]]

\* a sidecar that is not JSON
MALFORMED == [text |-> "{not json"]

\* generatePlanMarkdown(plan): the text rendered from the fields of the
\* record other than its id; JSON.stringify of a NaN value gives null
generatePlanMarkdown(plan) ==
    [generated |->
        [slug |-> plan.slug,
         createdAt |-> toISOString(plan.createdAt),
         updatedAt |-> toISOString(plan.updatedAt),
         phase |-> plan.phase,
         userRequest |-> plan.userRequest,
         clarifications |->
            [i \in DOMAIN plan.clarifications |->
                <<plan.clarifications[i][1],
                  IF plan.clarifications[i][2] = NAN
                  THEN JSON_NULL ELSE plan.clarifications[i][2]>>],
         implementationPlan |-> plan.implementationPlan,
         filesToModify |-> plan.filesToModify,
         verificationSteps |-> plan.verificationSteps]]

\* fs.writeFile and fs.unlink on the files map
writeFile(fs, path, content) == (path :> content) @@ fs
unlink(fs, path) == [p \in DOMAIN fs \ {path} |-> fs[p]]
exists(fs, path) == path \in DOMAIN fs

\* savePlanFile writing the sidecar under the id of the record
SavePlanFile_SidecarById(cwd, plan, markdownContent) ==
    IF ~isValidProjectDirectory(cwd)
    THEN [result |-> "error", planDirs |-> planDirs, files |-> files]
    ELSE LET mdPath == getPlanMdPath(cwd, plan.slug)
             jsonPath == getPlanJsonPath(cwd, plan.id)
             content == IF markdownContent # "" /\ markdownContent # NONE
                        THEN [text |-> markdownContent]
                        ELSE generatePlanMarkdown(plan)
         IN  [result |-> "void",
              planDirs |-> planDirs \cup {getPlanDirectory(cwd)},
              files |-> writeFile(writeFile(files, mdPath, content),
                                  jsonPath, JSONstringify(plan))]

\* savePlanFile: how it returns, and the directories and files after it
SavePlanFile(cwd, plan, markdownContent) ==
    IF ~isValidProjectDirectory(cwd)
    THEN [result |-> "error", planDirs |-> planDirs, files |-> files]
    ELSE LET mdPath == getPlanMdPath(cwd, plan.slug)
             jsonPath == getPlanJsonPath(cwd, plan.slug)
             content == IF markdownContent # "" /\ markdownContent # NONE
                        THEN [text |-> markdownContent]
                        ELSE generatePlanMarkdown(plan)
         IN  [result |-> "void",
              planDirs |-> planDirs \cup {getPlanDirectory(cwd)},
              files |-> writeFile(writeFile(files, mdPath, content),
                                  jsonPath, JSONstringify(plan))]

\* loadPlanFile: the record read from the sidecar, or NULL
LoadPlanFile(fs, cwd, slug) ==
    LET jsonPath == getPlanJsonPath(cwd, slug)
    IN  IF ~exists(fs, jsonPath)
        THEN NULL
        ELSE IF "json" \notin DOMAIN fs[jsonPath]
        THEN NULL
        ELSE LET data == fs[jsonPath].json
             IN  [data EXCEPT !.createdAt = newDate(data.createdAt),
                              !.updatedAt = newDate(data.updatedAt)]

\* loadPlanMarkdown: the content of the markdown file, or NULL
LoadPlanMarkdown(fs, cwd, slug) ==
    LET mdPath == getPlanMdPath(cwd, slug)
    IN  IF exists(fs, mdPath) THEN fs[mdPath] ELSE NULL

\* a call of the store: its name, arguments, outcome and returned value
StoreCall(op, cwd, arg, result, value) ==
    [op |-> op, cwd |-> cwd, arg |-> arg, result |-> result, value |-> value]

savePlanFile(cwd, plan, markdownContent) ==
    LET saved == SavePlanFile(cwd, plan, markdownContent)
    IN  /\ planDirs' = saved.planDirs
        /\ files' = saved.files
        /\ call' = StoreCall("savePlanFile", cwd, plan, saved.result, NULL)
        /\ UNCHANGED <<pmVars, qmVars, uiVars, appVars, inFlight>>

loadPlanFile(cwd, slug) ==
    /\ call' = StoreCall("loadPlanFile", cwd, slug, "value",
                         LoadPlanFile(files, cwd, slug))
    /\ UNCHANGED <<pmVars, qmVars, restVars>>

loadPlanMarkdown(cwd, slug) ==
    /\ call' = StoreCall("loadPlanMarkdown", cwd, slug, "value",
                         LoadPlanMarkdown(files, cwd, slug))
    /\ UNCHANGED <<pmVars, qmVars, restVars>>

\* deletePlanFile: each unlink is tried on its own; an unlink of a file
\* that exists may fail (the file is busy or protected) and the failure is
\* swallowed like the one of a missing file
DeletePlanFile(cwd, slug) ==
    LET mdPath == getPlanMdPath(cwd, slug)
        jsonPath == getPlanJsonPath(cwd, slug)
    IN  {[mdFailed |-> mdFails, jsonFailed |-> jsonFails,
          files |-> LET afterMd == IF mdFails THEN files
                                   ELSE unlink(files, mdPath)
                    IN  IF jsonFails THEN afterMd ELSE unlink(afterMd, jsonPath)] :
            mdFails \in {f \in BOOLEAN : f => exists(files, mdPath)},
            jsonFails \in {f \in BOOLEAN : f => exists(files, jsonPath)}}

deletePlanFile(cwd, slug) ==
    \E deleted \in DeletePlanFile(cwd, slug) :
        /\ files' = deleted.files
        /\ call' = StoreCall("deletePlanFile", cwd, slug, "void",
                             [mdFailed |-> deleted.mdFailed,
                              jsonFailed |-> deleted.jsonFailed])
        /\ UNCHANGED <<pmVars, qmVars, uiVars, appVars, planDirs, inFlight>>

\* the slugs of the '.plan.json' entries of a directory
jsonSlugs(fs, planDir) ==
    {p.slug : p \in {q \in DOMAIN fs : q.dir = planDir /\ q.ext = PLAN_JSON_EXT}}

\* the orders in which readdir may return the entries
RECURSIVE Orders(_)
Orders(S) ==
    IF S = {} THEN {<<>>}
    ELSE UNION {{<<x>> \o rest : rest \in Orders(S \ {x})} : x \in S}

\* Array.prototype.sort with (a, b) => b.createdAt - a.createdAt: stable
RECURSIVE sortNewestFirst(_)
sortNewestFirst(plans) ==
    IF plans = <<>> THEN <<>>
    ELSE LET sorted == sortNewestFirst(SubSeq(plans, 1, Len(plans) - 1))
             last == plans[Len(plans)]
             \* compare(sorted[i], last) <= 0: the entry stays in front
             Stays(i) == last.planFile.createdAt - sorted[i].planFile.createdAt <= 0
             front == IF \E i \in DOMAIN sorted : ~Stays(i)
                      THEN (CHOOSE i \in DOMAIN sorted :
                              ~Stays(i) /\ \A j \in DOMAIN sorted : ~Stays(j) => i <= j) - 1
                      ELSE Len(sorted)
         IN  SubSeq(sorted, 1, front) \o <<last>>
             \o SubSeq(sorted, front + 1, Len(sorted))

\* sort that leaves the entries in the order of the directory
sortByCreatedAt_Unsorted(plans) == plans

\* plans.sort(...) of listPlanFiles
sortByCreatedAt(plans) == sortNewestFirst(plans)

\* listPlanFiles for one order of the directory entries
ListPlanFiles(fs, dirs, cwd, order) ==
    IF getPlanDirectory(cwd) \notin dirs
    THEN <<>>
    ELSE LET Loads(slug) == LoadPlanFile(fs, cwd, slug) # NULL
             loaded == SelectSeq(order, Loads)
         IN  sortByCreatedAt(
                 [i \in DOMAIN loaded |->
                     [slug |-> loaded[i],
                      planFile |-> LoadPlanFile(fs, cwd, loaded[i])]])

listPlanFiles(cwd) ==
    \E order \in Orders(jsonSlugs(files, getPlanDirectory(cwd))) :
        /\ call' = StoreCall("listPlanFiles", cwd, NONE, "value",
                             ListPlanFiles(files, planDirs, cwd, order))
        /\ UNCHANGED <<pmVars, qmVars, restVars>>

\* updatePlanMarkdown: writeFile fails when the plan directory is missing
UpdatePlanMarkdown(cwd, slug, markdownContent, now) ==
    IF getPlanDirectory(cwd) \notin planDirs
    THEN [result |-> "error", planDirs |-> planDirs, files |-> files]
    ELSE LET written == writeFile(files, getPlanMdPath(cwd, slug),
                                  [text |-> markdownContent])
             plan == LoadPlanFile(written, cwd, slug)
         IN  [result |-> "void",
              planDirs |-> planDirs,
              files |-> IF plan # NULL
                        THEN writeFile(written, getPlanJsonPath(cwd, slug),
                                       JSONstringify([plan EXCEPT !.updatedAt = now]))
                        ELSE written]

\* the clock readings no earlier than the times of a stored plan
NowAfter(cwd, slug) ==
    LET plan == LoadPlanFile(files, cwd, slug)
    IN  {t \in 0..MaxClock : plan # NULL => t >= plan.updatedAt}

updatePlanMarkdown(cwd, slug, markdownContent) ==
    \E now \in NowAfter(cwd, slug) :
        LET updated == UpdatePlanMarkdown(cwd, slug, markdownContent, now)
        IN  /\ planDirs' = updated.planDirs
            /\ files' = updated.files
            /\ call' = StoreCall("updatePlanMarkdown", cwd, slug, updated.result, NULL)
            /\ UNCHANGED <<pmVars, qmVars, uiVars, appVars, inFlight>>

\* markdownContent || generatePlanMarkdown(planFile)
SavedMarkdown(plan, markdownContent) ==
    IF markdownContent # "" /\ markdownContent # NONE
    THEN [text |-> markdownContent]
    ELSE generatePlanMarkdown(plan)

\* a call of savePlanFile that awaits: its arguments, the operation it
\* awaits, and whether another call was in flight at any time during it
Awaiting(cwd, plan, markdownContent, awaits, overlapped) ==
    [cwd |-> cwd, planFile |-> plan, markdownContent |-> markdownContent,
     awaits |-> awaits, overlapped |-> overlapped]

\* savePlanFile up to its first await: ensurePlanDirectory throws for a
\* directory that is not valid and otherwise awaits mkdir
savePlanFileCalled(caller, cwd, plan, markdownContent) ==
    /\ caller \notin DOMAIN inFlight
    /\ IF ~isValidProjectDirectory(cwd)
       THEN /\ call' = StoreCall("savePlanFile", cwd, plan, "error", NULL)
            /\ UNCHANGED inFlight
       ELSE /\ inFlight' =
                  (caller :> Awaiting(cwd, plan, markdownContent, "mkdir",
                                      DOMAIN inFlight # {}))
                  @@ [c \in DOMAIN inFlight |->
                         [inFlight[c] EXCEPT !.overlapped = TRUE]]
            /\ call' = StoreCall("savePlanFile", cwd, plan, "awaited", NULL)
    /\ UNCHANGED <<planDirs, files>>
    /\ UNCHANGED <<pmVars, qmVars, uiVars, appVars>>

\* the call resumed after the markdown file is written, writing nothing
savePlanFileResumed_SkipsMarkdown(caller) ==
    /\ caller \in DOMAIN inFlight
    /\ LET this == inFlight[caller]
           mdPath == getPlanMdPath(this.cwd, this.planFile.slug)
           jsonPath == getPlanJsonPath(this.cwd, this.planFile.slug)
       IN  IF this.awaits = "mkdir"
           THEN /\ planDirs' = planDirs \cup {getPlanDirectory(this.cwd)}
                /\ inFlight' = [inFlight EXCEPT ![caller].awaits = "writeFile(mdPath)"]
                /\ call' = StoreCall("savePlanFile", this.cwd, this.planFile, "awaited", NULL)
                /\ UNCHANGED files
           ELSE IF this.awaits = "writeFile(mdPath)"
           THEN /\ inFlight' = [inFlight EXCEPT ![caller].awaits = "writeFile(jsonPath)"]
                /\ call' = StoreCall("savePlanFile", this.cwd, this.planFile, "awaited", NULL)
                /\ UNCHANGED <<planDirs, files>>
           ELSE /\ files' = writeFile(files, jsonPath, JSONstringify(this.planFile))
                /\ inFlight' = [c \in DOMAIN inFlight \ {caller} |-> inFlight[c]]
                /\ call' = StoreCall("savePlanFile", this.cwd, this.planFile, "void", NULL)
                /\ UNCHANGED planDirs
    /\ UNCHANGED <<pmVars, qmVars, uiVars, appVars>>

\* savePlanFile resumed when the operation it awaits has completed: mkdir,
\* then the write of the markdown file, then the write of the sidecar, after
\* which the call returns
savePlanFileResumed(caller) ==
    /\ caller \in DOMAIN inFlight
    /\ LET this == inFlight[caller]
           mdPath == getPlanMdPath(this.cwd, this.planFile.slug)
           jsonPath == getPlanJsonPath(this.cwd, this.planFile.slug)
       IN  IF this.awaits = "mkdir"
           THEN /\ planDirs' = planDirs \cup {getPlanDirectory(this.cwd)}
                /\ inFlight' = [inFlight EXCEPT ![caller].awaits = "writeFile(mdPath)"]
                /\ call' = StoreCall("savePlanFile", this.cwd, this.planFile, "awaited", NULL)
                /\ UNCHANGED files
           ELSE IF this.awaits = "writeFile(mdPath)"
           THEN /\ files' = writeFile(files, mdPath,
                                      SavedMarkdown(this.planFile, this.markdownContent))
                /\ inFlight' = [inFlight EXCEPT ![caller].awaits = "writeFile(jsonPath)"]
                /\ call' = StoreCall("savePlanFile", this.cwd, this.planFile, "awaited", NULL)
                /\ UNCHANGED planDirs
           ELSE /\ files' = writeFile(files, jsonPath, JSONstringify(this.planFile))
                /\ inFlight' = [c \in DOMAIN inFlight \ {caller} |-> inFlight[c]]
                /\ call' = StoreCall("savePlanFile", this.cwd, this.planFile, "void", NULL)
                /\ UNCHANGED planDirs
    /\ UNCHANGED <<pmVars, qmVars, uiVars, appVars>>

(***************************************************************************)
(* planning/plan-manager.ts: PlanManager over the store, for its #cwd.     *)
(***************************************************************************)
createPlan(cwd, userRequest, slug, now) ==
    LET plan == [id |-> slug,
                 slug |-> slug,
                 userRequest |-> userRequest,
                 phase |-> "initial_understanding",
                 clarifications |-> <<>>,
                 implementationPlan |-> "",
                 filesToModify |-> <<>>,
                 verificationSteps |-> <<>>,
                 createdAt |-> now,
                 updatedAt |-> now]
        saved == SavePlanFile(cwd, plan, NONE)
    IN  IF ~isValidProjectDirectory(cwd)
        THEN /\ call' = StoreCall("createPlan", cwd, NULL, "error", NULL)
             /\ UNCHANGED <<pmVars, qmVars, restVars>>
        ELSE /\ planDirs' = saved.planDirs
             /\ files' = saved.files
             /\ call' = StoreCall("createPlan", cwd, plan, saved.result,
                                  IF saved.result = "void" THEN plan ELSE NULL)
             /\ UNCHANGED <<pmVars, qmVars, uiVars, appVars, inFlight>>

updatePlan(cwd, plan, now) ==
    LET stamped == [plan EXCEPT !.updatedAt = now]
        saved == SavePlanFile(cwd, stamped, NONE)
    IN  /\ planDirs' = saved.planDirs
        /\ files' = saved.files
        /\ call' = StoreCall("updatePlan", cwd, stamped, saved.result, NULL)
        /\ UNCHANGED <<pmVars, qmVars, uiVars, appVars, inFlight>>

saveMarkdownContent(cwd, slug, markdownContent) ==
    \E now \in NowAfter(cwd, slug) :
        LET updated == UpdatePlanMarkdown(cwd, slug, markdownContent, now)
        IN  /\ planDirs' = updated.planDirs
            /\ files' = updated.files
            /\ call' = StoreCall("saveMarkdownContent", cwd, slug, updated.result, NULL)
            /\ UNCHANGED <<pmVars, qmVars, uiVars, appVars, inFlight>>

savePlanWithMarkdown(cwd, plan, markdownContent, now) ==
    LET stamped == [plan EXCEPT !.updatedAt = now]
        saved == SavePlanFile(cwd, stamped, markdownContent)
    IN  /\ planDirs' = saved.planDirs
        /\ files' = saved.files
        /\ call' = StoreCall("savePlanWithMarkdown", cwd, stamped, saved.result, NULL)
        /\ UNCHANGED <<pmVars, qmVars, uiVars, appVars, inFlight>>

(***************************************************************************)
(* services/plan-manager.ts: the PlanManager of implementation plans,      *)
(* which keeps '<planId>.md' files in the same plan directory.             *)
(***************************************************************************)
validateProjectDirectory(workspaceRoot) ==
    normalize(workspaceRoot) # normalize(homedir)

savePlan(workspaceRoot, planId) ==
    IF ~validateProjectDirectory(workspaceRoot)
    THEN /\ call' = StoreCall("savePlan", workspaceRoot, planId, "error", NULL)
         /\ UNCHANGED <<pmVars, qmVars, restVars>>
    ELSE /\ planDirs' = planDirs \cup {getPlanDirectory(workspaceRoot)}
         /\ files' = writeFile(files,
                               [dir |-> getPlanDirectory(workspaceRoot),
                                slug |-> planId, ext |-> ".md"],
                               [formatted |-> planId])
         /\ call' = StoreCall("savePlan", workspaceRoot, planId, "void", NULL)
         /\ UNCHANGED <<pmVars, qmVars, uiVars, appVars, inFlight>>

(***************************************************************************)
(* The store in use.                                                       *)
(***************************************************************************)
\* a sidecar damaged outside the program (edited by hand, truncated)
damageSidecar(cwd, slug) ==
    /\ exists(files, getPlanJsonPath(cwd, slug))
    /\ files[getPlanJsonPath(cwd, slug)] # MALFORMED
    /\ files' = writeFile(files, getPlanJsonPath(cwd, slug), MALFORMED)
    /\ call' = StoreCall("damageSidecar", cwd, slug, "void", NULL)
    /\ UNCHANGED <<pmVars, qmVars, uiVars, appVars, planDirs, inFlight>>

\* the working directories tried: the home directory, written with and
\* without a trailing separator, a directory under it, and a project
\* directory whose path begins with the characters of the home directory
HomeSub == homedir \o <<"/", "p">>
ProjectDir == homedir \o <<"2">>
Cwds == {homedir, homedir \o <<"/">>, HomeSub, ProjectDir}

StoreSlugs == Slugs \cup {"0f9e8d7c6b5a"}
PlanIds == {"plan-1970-01-01-00-00-00-000Z"}     \* generatePlanId()
Markdowns == {"", "# Plan"}

\* the clarifications of the plans saved: under the first slug a map JSON
\* carries as it is, under the other one with a member JSON leaves out
StoreClarifications(slug) ==
    IF slug \in Slugs
    THEN {<<<<k, v>>>> : k \in ClarificationKeys, v \in ClarificationValues}
    ELSE {<<<<k, v>>, <<"draft", UNDEFINED>>>> :
             k \in ClarificationKeys, v \in ClarificationValues}

\* the plan records handed to the store by a caller
StorePlans ==
    UNION {{[id |-> id,
             slug |-> slug,
             userRequest |-> r,
             phase |-> "design",
             clarifications |-> c,
             implementationPlan |-> "1. do it",
             filesToModify |-> <<"src/a.ts">>,
             verificationSteps |-> <<"run tests">>,
             createdAt |-> t,
             updatedAt |-> t] :
               id \in UUIDs, r \in UserRequests,
               c \in StoreClarifications(slug), t \in 0..MaxClock} :
           slug \in StoreSlugs}

\* the working directories of the sessions that load, list and delete
StoreCwds == {homedir, ProjectDir}

\* plans are saved, loaded, listed and deleted
NextStore ==
    \/ \E cwd \in StoreCwds, plan \in StorePlans : savePlanFile(cwd, plan, NONE)
    \/ \E cwd \in StoreCwds, slug \in StoreSlugs : loadPlanFile(cwd, slug)
    \/ \E cwd \in StoreCwds, slug \in StoreSlugs : loadPlanMarkdown(cwd, slug)
    \/ \E cwd \in StoreCwds, slug \in StoreSlugs : deletePlanFile(cwd, slug)
    \/ \E cwd \in StoreCwds : listPlanFiles(cwd)
    \/ \E cwd \in StoreCwds, r \in UserRequests, slug \in StoreSlugs,
          now \in 0..MaxClock :
          createPlan(cwd, r, slug, now)
    \/ \E cwd \in StoreCwds, plan \in StorePlans, now \in 0..MaxClock :
          now >= plan.updatedAt /\ updatePlan(cwd, plan, now)
    \/ \E cwd \in StoreCwds, slug \in StoreSlugs : damageSidecar(cwd, slug)

SpecStore == Init /\ [][NextStore]_vars

\* every operation that writes, on the plans of one slug
NextWrites ==
    \/ \E cwd \in Cwds, plan \in StorePlans, md \in Markdowns :
          plan.slug \in Slugs /\ savePlanFile(cwd, plan, md)
    \/ \E cwd \in Cwds, r \in UserRequests, slug \in Slugs, now \in 0..MaxClock :
          createPlan(cwd, r, slug, now)
    \/ \E cwd \in Cwds, plan \in StorePlans, now \in 0..MaxClock :
          plan.slug \in Slugs /\ now >= plan.updatedAt /\ updatePlan(cwd, plan, now)
    \/ \E cwd \in Cwds, plan \in StorePlans, md \in Markdowns, now \in 0..MaxClock :
          /\ plan.slug \in Slugs
          /\ now >= plan.updatedAt
          /\ savePlanWithMarkdown(cwd, plan, md, now)
    \/ \E cwd \in Cwds, slug \in Slugs, md \in Markdowns \ {""} :
          updatePlanMarkdown(cwd, slug, md)
    \/ \E cwd \in Cwds, slug \in Slugs, md \in Markdowns \ {""} :
          saveMarkdownContent(cwd, slug, md)
    \/ \E root \in Cwds, planId \in PlanIds : savePlan(root, planId)

SpecWrites == Init /\ [][NextWrites]_vars

\* the callers whose savePlanFile calls may be in flight together
Callers == {1, 2}

\* the records of one slug that the callers save
SavedPlans == {plan \in StorePlans : plan.slug \in Slugs}

\* calls of savePlanFile that are not serialised: a caller may call while
\* the call of the other awaits
NextSaves ==
    \/ \E caller \in Callers, cwd \in StoreCwds, plan \in SavedPlans,
          md \in {NONE, "# Plan"} :
          savePlanFileCalled(caller, cwd, plan, md)
    \/ \E caller \in Callers : savePlanFileResumed(caller)

SpecSaves == Init /\ [][NextSaves]_vars

(***************************************************************************)
(* The application with the hook usePlanningHandlers: the state of the     *)
(* application, the two managers and the plan files of process.cwd().      *)
(***************************************************************************)
isPlanApprovalMode ==
    /\ appState.planningEnabled
    /\ appState.planningPhase = "exit"
    /\ appState.planFile # NULL

\* ModalSelectors that looks at the plan approval first
ModalSelectors_ApprovalFirst ==
    IF isPlanApprovalMode /\ appState.planFile # NULL THEN "PlanApproval"
    ELSE IF isQuestionMode /\ currentQuestion # NULL THEN "InteractiveQuestion"
    ELSE "other"

\* the modal ModalSelectors renders for planning; "other" for the rest
ModalSelectors ==
    IF isQuestionMode /\ currentQuestion # NULL THEN "InteractiveQuestion"
    ELSE IF isPlanApprovalMode /\ appState.planFile # NULL THEN "PlanApproval"
    ELSE "other"

\* process.cwd() of the application
AppCwd == ProjectDir

\* planningManager.createPlanFile with the hook listening
createPlanFileInApp(userRequest, slug, uuid, now) ==
    LET plan == NewPlanFile(userRequest, slug, uuid, now)
    IN  /\ planFile' = plan
        /\ emitted' = <<Event("planCreated", NONE, plan)>>
        /\ appState' = Listen(appState, emitted')
        /\ call' = Call("createPlanFile", "void")
        /\ UNCHANGED <<enabled, currentPhase, phaseProgress>>
        /\ UNCHANGED <<qmVars, uiVars, fsVars, currentMode>>

\* the hook's transitionToNextPhase
transitionToNextPhaseInApp ==
    /\ transitionInHandler(0)
    /\ appState' = Listen(appState, emitted')
    /\ call' = Call("transitionToNextPhase", "void")
    /\ UNCHANGED <<qmVars, uiVars, fsVars, currentMode>>

\* the question modal calls onAnswer for its question
onQuestionAnswer ==
    /\ ModalSelectors = "InteractiveQuestion"
    /\ \E now \in DateNow :
          handleQuestionAnswer([questionId |-> currentQuestion.id,
                                selectedOptionIds |-> <<>>,
                                timestamp |-> now])
    /\ call' = Call("handleQuestionAnswer", "void")
    /\ UNCHANGED <<uiVars, fsVars>>

\* the question modal calls onCancel
onQuestionCancel ==
    /\ ModalSelectors = "InteractiveQuestion"
    /\ handleQuestionCancel
    /\ call' = Call("handleQuestionCancel", "void")
    /\ UNCHANGED <<uiVars, fsVars>>

handlePlanApprove(mode) ==
    IF appState.planFile = NULL
    THEN /\ call' = Call("handlePlanApprove", "return")
         /\ emitted' = <<>>
         /\ UNCHANGED <<pmState, qmVars, restVars>>
    ELSE \E now \in DateNow :
           LET updatedPlan == [appState.planFile EXCEPT !.phase = "completed",
                                                       !.updatedAt = now]
               saved == SavePlanFile(AppCwd, updatedPlan, NONE)
           IN  IF saved.result = "error"
               THEN /\ call' = Call("handlePlanApprove", "error")
                    /\ emitted' = <<>>
                    /\ UNCHANGED <<pmState, qmVars, restVars>>
               ELSE /\ planDirs' = saved.planDirs
                    /\ files' = saved.files
                    /\ appState' = [appState EXCEPT !.developmentMode = mode,
                                                    !.planningEnabled = FALSE,
                                                    !.planningPhase = NONE]
                    /\ IF ~enabled
                       THEN /\ emitted' = <<>>
                            /\ UNCHANGED pmState
                       ELSE /\ enabled' = createInitialPlanningState.enabled
                            /\ currentPhase' = createInitialPlanningState.currentPhase
                            /\ planFile' = createInitialPlanningState.planFile
                            /\ phaseProgress' =
                                  createInitialPlanningState.phaseProgress
                            /\ emitted' = <<Event("disabled", NONE, NULL)>>
                    /\ call' = Call("handlePlanApprove", mode)
                    /\ UNCHANGED <<qmVars, uiVars, currentMode, inFlight>>

\* handlePlanDiscard up to the end of its await of deletePlan
handlePlanDiscard ==
    IF appState.planFile = NULL
    THEN /\ call' = Call("handlePlanDiscard", "return")
         /\ emitted' = <<>>
         /\ UNCHANGED <<pmState, qmVars, restVars>>
    ELSE \E deleted \in DeletePlanFile(AppCwd, appState.planFile.slug) :
           /\ files' = deleted.files
           /\ call' = [op |-> "handlePlanDiscard", result |-> "awaited",
                        slug |-> appState.planFile.slug]
           /\ emitted' = <<>>
           /\ UNCHANGED <<pmState, qmVars, uiVars, appVars, planDirs, inFlight>>

\* handlePlanDiscard is at its await
discardAwaited == call.op = "handlePlanDiscard" /\ call.result = "awaited"

\* handlePlanDiscard after the await: disablePlanningMode
handlePlanDiscardResumed ==
    /\ discardAwaited
    /\ disablePlanningMode
    /\ call' = [op |-> "handlePlanDiscard", result |-> "void", slug |-> call.slug]
    /\ UNCHANGED <<uiVars, fsVars>>

\* planning as the user drives it; a discard that awaits is resumed before
\* anything else happens
NextApp ==
    \/ handlePlanDiscardResumed
    \/ ~discardAwaited /\ enablePlanningMode
    \/ /\ ~discardAwaited
       /\ \E f \in ProjectFiles : generateQuestions(OptimizeRequest, f)
    \/ /\ ~discardAwaited
       /\ \E r \in UserRequests, s \in Slugs, u \in UUIDs, now \in DateNow :
             createPlanFileInApp(r, s, u, now)
    \/ ~discardAwaited /\ transitionToNextPhaseInApp
    \/ ~discardAwaited /\ onQuestionAnswer
    \/ ~discardAwaited /\ onQuestionCancel
    \/ /\ ~discardAwaited
       /\ ModalSelectors = "PlanApproval" \/ appState.planFile = NULL
       /\ \E mode \in {"normal", "auto-accept"} : handlePlanApprove(mode)
    \/ /\ ~discardAwaited
       /\ ModalSelectors = "PlanApproval" \/ appState.planFile = NULL
       /\ handlePlanDiscard

SpecApp == Init /\ [][NextApp]_vars

(***************************************************************************)
(* The properties.                                                         *)
(***************************************************************************)
ReadOnlyTools == {"read_file", "find_files", "search_file_contents", "list_directory"}

\* the allow-list table of the specification
AllowListOf(phase) ==
    CASE phase \in {"initial_understanding", "review", "final_plan"} -> ReadOnlyTools
      [] phase = "design" -> ReadOnlyTools \cup {"write_plan_file"}
      [] phase = "exit" -> {}

\* the position of a phase in the order initial_understanding, design,
\* review, final_plan, exit
PhaseIndex(phase) ==
    CASE phase = "initial_understanding" -> 0
      [] phase = "design" -> 1
      [] phase = "review" -> 2
      [] phase = "final_plan" -> 3
      [] phase = "exit" -> 4

\* C1: while planning is enabled, isToolAllowed(t) is true exactly when t is
\* in the allow-list of the current phase.
C1_AllowedIffInAllowList ==
    enabled => \A t \in ToolNames : isToolAllowed(t) <=> t \in AllowListOf(currentPhase)

C1_Witness ==
    /\ enabled
    /\ currentPhase = "review"
    /\ call = Call("transitionToNextPhase", "true")
    /\ isToolAllowed("read_file")
    /\ ~isToolAllowed("write_plan_file")

\* C2: while planning is disabled, isToolAllowed(t) is true for every tool
\* name t.
C2_DisabledAllowsEveryTool ==
    ~enabled => \A t \in ToolNames : isToolAllowed(t)

C2_Witness ==
    /\ ~enabled
    /\ call = Call("disable", "void")
    /\ emitted = <<Event("disabled", NONE, NULL)>>
    /\ isToolAllowed("bash")

\* C3: while planning is enabled, write_plan_file is allowed only in the
\* design phase, and no tool outside the four read-only tools and
\* write_plan_file is allowed.
C3_WriteOnlyInDesign ==
    enabled =>
        /\ isToolAllowed("write_plan_file") => currentPhase = "design"
        /\ \A t \in ToolNames :
              isToolAllowed(t) => t \in ReadOnlyTools \cup {"write_plan_file"}

C3_Witness ==
    /\ enabled
    /\ currentPhase = "design"
    /\ isToolAllowed("write_plan_file")

\* C4: in the exit phase with planning enabled no tool is allowed, and every
\* call other than disable() leaves the manager enabled in the exit phase
\* with no tool allowed.
C4_ExitBlocksUntilDisable ==
    [][(enabled /\ currentPhase = "exit") =>
          /\ \A t \in ToolNames : ~isToolAllowed(t)
          /\ call'.op # "disable" =>
                /\ enabled'
                /\ currentPhase' = "exit"
                /\ \A t \in ToolNames : ~isToolAllowed(t)']_vars

C4_Witness ==
    /\ enabled
    /\ currentPhase = "exit"
    /\ call = Call("enable", "void")
    /\ \A t \in ToolNames : ~isToolAllowed(t)

\* C5: transitionToNextPhase() in the exit phase returns false, changes no
\* part of the planning state and raises no notification.
C5_TransitionAtExitChangesNothing ==
    [][(enabled /\ currentPhase = "exit" /\ transitionToNextPhase) =>
          /\ call'.result = "false"
          /\ UNCHANGED <<currentPhase, planFile, enabled, phaseProgress>>
          /\ emitted' = <<>>]_vars

\* C6: every change of the phase is a move to the immediate successor or a
\* reset to initial_understanding by disable() or enable(); while planning
\* stays enabled the phase index never decreases and never skips.
C6_ForwardOnly ==
    [][/\ currentPhase' # currentPhase =>
            \/ PhaseIndex(currentPhase') = PhaseIndex(currentPhase) + 1
            \/ /\ currentPhase' = "initial_understanding"
               /\ call'.op \in {"disable", "enable"}
       /\ (enabled /\ enabled') =>
            PhaseIndex(currentPhase') \in
                {PhaseIndex(currentPhase), PhaseIndex(currentPhase) + 1}]_vars

C6_Witness ==
    /\ enabled
    /\ currentPhase = "final_plan"
    /\ call = Call("setPhase", "void")
    /\ emitted # <<>>

\* C7: with planning enabled, setPhase(target) succeeds only for the
\* immediate successor of the current phase; for every other target it
\* fails with an error, leaves currentPhase, planFile and phaseProgress
\* unchanged and raises no notification.
C7_SetPhaseOnlySuccessor ==
    [][(call'.op = "setPhase" /\ enabled) =>
          /\ \A target \in PlanningPhase :
                (/\ PhaseIndex(target) = PhaseIndex(currentPhase) + 1
                 /\ setPhase(target)) =>
                    call'.result = "void" /\ currentPhase' = target
          /\ (\E target \in PlanningPhase :
                /\ PhaseIndex(target) # PhaseIndex(currentPhase) + 1
                /\ setPhase(target)) =>
                    /\ call'.result = "error"
                    /\ UNCHANGED <<currentPhase, planFile, phaseProgress>>
                    /\ emitted' = <<>>]_vars

C7_Witness ==
    /\ enabled
    /\ call = Call("setPhase", "error")
    /\ currentPhase = "design"
    /\ planFile # NULL
    /\ emitted = <<>>

\* the value stored under a key of a map held as key/value pairs
GetKey(map, key) == map[CHOOSE i \in DOMAIN map : map[i][1] = key][2]

HasKey(map, key) == \E i \in DOMAIN map : map[i][1] = key

\* C8: submitAnswer(answer) fails when there is no current question or when
\* answer.questionId differs from the current question's id, and then leaves
\* answeredQuestions, currentQuestion, questionQueue and completed unchanged.
C8_SubmitRejectsMismatch ==
    [][(/\ call'.op = "submitAnswer"
        /\ \E a \in Answers :
              /\ currentQuestion = NULL \/ a.questionId # currentQuestion.id
              /\ submitAnswer(a)) =>
          /\ call'.result = "error"
          /\ UNCHANGED <<answeredQuestions, currentQuestion, questionQueue,
                         completed>>]_vars

C8_Witness ==
    /\ call = Call("submitAnswer", "error")
    /\ currentQuestion # NULL
    /\ currentQuestion.id = "architecture-pattern"
    /\ Len(answeredQuestions) = 2

\* C9: skipCurrentQuestion() fails when there is no current question or the
\* current question has allowSkip = false (the confirmation question), and
\* then the size of answeredQuestions and the current question are
\* unchanged; otherwise it records an answer with no selected option for the
\* current question and advances.
C9_SkipOnlyWhenAllowed ==
    [][skipCurrentQuestion =>
          IF currentQuestion = NULL \/ ~currentQuestion.allowSkip
          THEN /\ call'.result = "error"
               /\ Len(answeredQuestions') = Len(answeredQuestions)
               /\ currentQuestion' = currentQuestion
          ELSE /\ call'.result = "void"
               /\ HasKey(answeredQuestions', currentQuestion.id)
               /\ GetKey(answeredQuestions', currentQuestion.id).questionId
                    = currentQuestion.id
               /\ GetKey(answeredQuestions', currentQuestion.id).selectedOptionIds
                    = <<>>
               /\ LET at == {i \in DOMAIN questionQueue :
                                questionQueue[i] = currentQuestion}
                  IN  IF \E i \in at : i < Len(questionQueue)
                      THEN \E i \in at : currentQuestion' = questionQueue[i + 1]
                      ELSE currentQuestion' = NULL /\ completed']_vars
    /\ [](currentQuestion # NULL /\ currentQuestion.type = "confirmation"
            => ~currentQuestion.allowSkip)

C9_Witness ==
    /\ call = Call("skipCurrentQuestion", "error")
    /\ currentQuestion # NULL
    /\ currentQuestion.type = "confirmation"
    /\ answeredQuestions # <<>>

\* the keywords of a question's template that occur in the lower-cased text
KeywordsFound(id, text) ==
    LET catalog == AMBIGUITY_TEMPLATES \o DECISION_TEMPLATES
        t == catalog[CHOOSE i \in DOMAIN catalog : catalog[i].id = id]
    IN  Cardinality({k \in DOMAIN t.keywords :
                        strIncludes(toLowerCase(text), t.keywords[k])})

\* the questions a request matches
MatchedIds(text) ==
    {id \in {"performance-requirements", "error-handling", "architecture-pattern",
             "database-choice", "authentication-method"} :
        KeywordsFound(id, text) > 0}
    \cup (IF \E kw \in {T.create, T.build, T.implement, T.add, T.develop} :
                strIncludes(toLowerCase(text), kw)
          THEN {"assumptions-confirmation"} ELSE {})

TypeRank(type) ==
    CASE type = "confirmation" -> 0 [] type = "decision" -> 1 [] type = "ambiguity" -> 2

CatalogIndex(id) ==
    CASE id = "performance-requirements" -> 1
      [] id = "error-handling" -> 2
      [] id = "architecture-pattern" -> 1
      [] id = "database-choice" -> 2
      [] id = "authentication-method" -> 3
      [] id = "assumptions-confirmation" -> 1

\* C10: the queue made by generateQuestions holds every matched question
\* once, confirmation questions first, then decision questions, then
\* ambiguity questions; inside the decision and the ambiguity group in
\* descending order of the keywords found, equal counts in catalog order.
\* For 'optimize performance of the database layer' the queue is
\* database-choice, performance-requirements.
C10_QueueOrder ==
    (call.op = "generateQuestions" /\ lastRequest # <<>>) =>
        LET text == lastRequest[1]
            q == questionQueue
        IN  /\ {q[i].id : i \in DOMAIN q} = MatchedIds(text)
            /\ \A i, j \in DOMAIN q : i < j =>
                  /\ q[i].id # q[j].id
                  /\ TypeRank(q[i].type) <= TypeRank(q[j].type)
                  /\ (q[i].type = q[j].type /\ q[i].type # "confirmation") =>
                        /\ KeywordsFound(q[i].id, text) >= KeywordsFound(q[j].id, text)
                        /\ KeywordsFound(q[i].id, text) = KeywordsFound(q[j].id, text)
                              => CatalogIndex(q[i].id) < CatalogIndex(q[j].id)
            /\ text = OptimizeRequest =>
                  [i \in DOMAIN q |-> q[i].id]
                      = <<"database-choice", "performance-requirements">>

C10_Witness ==
    /\ call.op = "generateQuestions"
    /\ lastRequest = <<W_Build \o SPACE \o T.database>>
    /\ Len(questionQueue) = 3
    /\ questionQueue[1].type = "confirmation"
    /\ questionQueue[2].id = "database-choice"
    /\ questionQueue[3].id = "architecture-pattern"

\* C11: every question of the queue can be answered or skipped from the
\* dialog: while a question is shown and not yet confirmed, Enter skips it or
\* a digit selects an option, and with an option selected Enter answers it.
C11_EveryQuestionCanAdvance ==
    (isQuestionMode /\ ~selectionState.isConfirmed) =>
        IF Len(selectionState.selectedIndices) = 0
        THEN \/ ENABLED (pressReturn /\ call'.result = "onSkip")
             \/ \E num \in Digits :
                   ENABLED (pressDigit(num) /\ call'.result = "toggle")
        ELSE ENABLED (pressReturn /\ call'.result = "onAnswer")

\* the names between the separators of a path
RECURSIVE Segments(_)
Segments(path) ==
    IF path = <<>> THEN <<>>
    ELSE LET rest == Segments(SubSeq(path, 1, Len(path) - 1))
             c == path[Len(path)]
         IN  IF c = "/" THEN (IF rest = <<>> \/ rest[Len(rest)] # <<>>
                              THEN Append(rest, <<>>) ELSE rest)
             ELSE IF rest = <<>> THEN <<<<c>>>>
             ELSE [rest EXCEPT ![Len(rest)] = Append(@, c)]

\* the names of a path, without the empty ones
Names(path) == LET NonEmpty(n) == n # <<>> IN SelectSeq(Segments(path), NonEmpty)

\* the directory is the home directory or lies under it
UnderHome(cwd) ==
    LET home == Names(homedir)
        dir == Names(cwd)
    IN  Len(home) <= Len(dir) /\ SubSeq(dir, 1, Len(home)) = home

\* every field value of the record is one JSON represents
Representable(plan) ==
    \A i \in DOMAIN plan.clarifications :
        plan.clarifications[i][2] \notin {UNDEFINED, NAN}

RoundTripFields ==
    {"id", "slug", "createdAt", "phase", "userRequest", "clarifications",
     "implementationPlan", "filesToModify", "verificationSteps"}

SaveOps == {"savePlanFile", "createPlan", "updatePlan", "savePlanWithMarkdown"}

\* C12: a load that follows a successful save of a JSON-representable record,
\* with the same directory and the record's slug, returns a record equal to
\* the saved one in id, slug, createdAt, phase, userRequest, clarifications,
\* implementationPlan, filesToModify and verificationSteps, with updatedAt
\* not earlier.
C12_SaveLoadRoundTrip ==
    [][(/\ call.op \in SaveOps
        /\ call.result = "void"
        /\ Representable(call.arg)
        /\ call'.op = "loadPlanFile"
        /\ call'.cwd = call.cwd
        /\ call'.arg = call.arg.slug) =>
          /\ call'.value # NULL
          /\ \A f \in RoundTripFields : call'.value[f] = call.arg[f]
          /\ call'.value.updatedAt >= call.arg.updatedAt]_vars

C12_Witness ==
    /\ call.op = "loadPlanFile"
    /\ call.value # NULL
    /\ call.value.id # call.value.slug
    /\ call.value.clarifications # <<>>
    /\ call.value.createdAt = 1
    /\ Representable(call.value)

\* C13: with the working directory the home directory or a directory under
\* it, savePlanFile, createPlan, updatePlan and savePlanWithMarkdown fail
\* with the directory error and neither a plan directory nor a file is
\* created or written.
C13_HomeSaveFailsBeforeWriting ==
    [][(call'.op \in SaveOps /\ UnderHome(call'.cwd)) =>
          /\ call'.result = "error"
          /\ UNCHANGED <<planDirs, files>>]_vars

C13_Witness ==
    /\ call.op = "savePlanWithMarkdown"
    /\ call.cwd = HomeSub
    /\ call.result = "error"
    /\ getPlanDirectory(HomeSub) \in planDirs

\* C14: from the home directory or a directory under it, every operation
\* that writes plan files fails with an error and writes no file,
\* updatePlanMarkdown, saveMarkdownContent and the services' savePlan
\* included.
C14_NoWriteUnderHome ==
    [][UnderHome(call'.cwd) =>
          /\ call'.result = "error"
          /\ UNCHANGED <<planDirs, files>>]_vars

\* C15: deletePlanFile never throws, whether both files, one of them or
\* neither exists and whether or not a removal fails, and after it
\* loadPlanFile and loadPlanMarkdown return null and the slug is not listed.
C15_DeleteThenLoadIsNull ==
    [][call'.op = "deletePlanFile" =>
          /\ call'.result = "void"
          /\ LoadPlanFile(files', call'.cwd, call'.arg) = NULL
          /\ LoadPlanMarkdown(files', call'.cwd, call'.arg) = NULL
          /\ \A order \in Orders(jsonSlugs(files', getPlanDirectory(call'.cwd))) :
                LET listed == ListPlanFiles(files', planDirs', call'.cwd, order)
                IN  \A i \in DOMAIN listed : listed[i].slug # call'.arg]_vars

\* C16: listPlanFiles returns one entry for each slug whose sidecar exists
\* and loads, and no other entry, with createdAt descending; a sidecar that
\* does not parse is left out, and without a plan directory the list is
\* empty.
C16_ListLoadableNewestFirst ==
    call.op = "listPlanFiles" =>
        LET listed == call.value
            loadable == {slug \in StoreSlugs : LoadPlanFile(files, call.cwd, slug) # NULL}
        IN  /\ {listed[i].slug : i \in DOMAIN listed} = loadable
            /\ Len(listed) = Cardinality(loadable)
            /\ \A i \in DOMAIN listed :
                  listed[i].planFile = LoadPlanFile(files, call.cwd, listed[i].slug)
            /\ \A i, j \in DOMAIN listed :
                  i < j => listed[i].planFile.createdAt >= listed[j].planFile.createdAt
            /\ getPlanDirectory(call.cwd) \notin planDirs => listed = <<>>

C16_Witness ==
    /\ call.op = "listPlanFiles"
    /\ Len(call.value) = 2
    /\ call.value[1].planFile.createdAt > call.value[2].planFile.createdAt

\* C17: loadPlanFile of a slug whose sidecar exists but is malformed raises
\* an error; null is returned only when the sidecar is absent.
C17_MalformedSidecarIsError ==
    [][call'.op = "loadPlanFile" =>
          IF exists(files, getPlanJsonPath(call'.cwd, call'.arg))
          THEN (files[getPlanJsonPath(call'.cwd, call'.arg)] = MALFORMED
                    => call'.result = "error")
               /\ (call'.result = "value" => call'.value # NULL)
          ELSE call'.result = "value" /\ call'.value = NULL]_vars

\* C18: a plan record made by createPlanFile has id equal to slug, and
\* neither changes while the record is updated.
C18_IdEqualsSlug ==
    planFile # NULL => planFile.id = planFile.slug

\* C19: with planning enabled getAllowedTools() is the allow-list of the
\* current phase: not empty and with read_file in every phase but exit,
\* empty in exit; and a tool is in it exactly when isToolAllowed is true.
C19_AllowedToolsOfPhase ==
    enabled =>
        /\ {getAllowedTools[i] : i \in DOMAIN getAllowedTools} = AllowListOf(currentPhase)
        /\ currentPhase # "exit" =>
              Len(getAllowedTools) > 0 /\ includes(getAllowedTools, "read_file")
        /\ currentPhase = "exit" => getAllowedTools = <<>>
        /\ \A t \in ToolNames : includes(getAllowedTools, t) <=> isToolAllowed(t)

C19_Witness ==
    /\ enabled
    /\ currentPhase = "exit"
    /\ getAllowedTools = <<>>
    /\ planFile # NULL

\* C20: disable() while enabled leaves the initial state (not enabled, phase
\* initial_understanding, no plan, every phase not completed and without
\* steps or notes) and raises one disabled notification; while disabled it
\* changes nothing and raises nothing.
C20_DisableResets ==
    [][call'.op = "disable" =>
          IF enabled
          THEN /\ enabled' = FALSE
               /\ currentPhase' = "initial_understanding"
               /\ planFile' = NULL
               /\ \A p \in PlanningPhase :
                     phaseProgress'[p] =
                         [completed |-> FALSE, steps |-> <<>>, notes |-> NONE]
               /\ Len(emitted') = 1
               /\ emitted'[1].type = "disabled"
          ELSE /\ UNCHANGED <<enabled, currentPhase, planFile, phaseProgress>>
               /\ emitted' = <<>>]_vars

C20_Witness ==
    /\ call.op = "disable"
    /\ ~enabled
    /\ Len(emitted) = 1
    /\ emitted[1].type = "disabled"

\* C21: enable() while enabled changes neither currentPhase nor planFile nor
\* phaseProgress and raises no notification; while disabled it sets enabled,
\* sets currentPhase to initial_understanding and raises one enabled
\* notification.
C21_EnableNoOpWhenEnabled ==
    [][call'.op = "enable" =>
          IF enabled
          THEN /\ UNCHANGED <<enabled, currentPhase, planFile, phaseProgress>>
               /\ emitted' = <<>>
          ELSE /\ enabled' = TRUE
               /\ currentPhase' = "initial_understanding"
               /\ Len(emitted') = 1
               /\ emitted'[1].type = "enabled"]_vars

C21_Witness ==
    /\ call.op = "enable"
    /\ emitted = <<>>
    /\ enabled
    /\ currentPhase = "review"
    /\ planFile # NULL

\* C22: whenever a plan is held, its phase field is the current phase.
C22_PlanPhaseMirrorsCurrentPhase ==
    planFile # NULL => planFile.phase = currentPhase

C22_Witness ==
    /\ call.op = "transitionToNextPhase"
    /\ call.result = "true"
    /\ planFile # NULL
    /\ planFile.phase = "final_plan"
    /\ planFile.implementationPlan # ""

\* C23: a successful transitionToNextPhase or setPhase raises planUpdated
\* with the plan in its new phase, when a plan is held, and then one
\* phaseChanged with the new phase, and nothing else; an unsuccessful call
\* raises nothing.
C23_PlanUpdatedThenPhaseChanged ==
    [][call'.op \in {"transitionToNextPhase", "setPhase"} =>
          LET success == \/ call'.op = "transitionToNextPhase" /\ call'.result = "true"
                         \/ /\ call'.op = "setPhase"
                            /\ call'.result = "void"
                            /\ enabled
              n == Len(emitted')
          IN  IF ~success
              THEN emitted' = <<>>
              ELSE /\ n = IF planFile # NULL THEN 2 ELSE 1
                   /\ emitted'[n].type = "phaseChanged"
                   /\ emitted'[n].phase = currentPhase'
                   /\ currentPhase' # currentPhase
                   /\ planFile # NULL =>
                         /\ emitted'[1].type = "planUpdated"
                         /\ emitted'[1].plan = planFile'
                         /\ emitted'[1].plan.phase = currentPhase']_vars

C23_Witness ==
    /\ call.op = "setPhase"
    /\ call.result = "void"
    /\ Len(emitted) = 2
    /\ emitted[1].type = "planUpdated"
    /\ emitted[1].plan.phase = "design"
    /\ emitted[2].type = "phaseChanged"
    /\ emitted[2].phase = "design"

C29_NextPositionOrCompletion ==
    /\ [][(/\ call'.op \in {"submitAnswer", "skipCurrentQuestion"}
            /\ call'.result = "void") =>
              LET index == findIndexById(questionQueue, currentQuestion.id)
              IN  /\ currentQuestion # NULL
                  /\ IF index >= 0 /\ index < Len(questionQueue) - 1
                     THEN /\ currentQuestion' = questionQueue[index + 2]
                          /\ findIndexById(questionQueue', currentQuestion'.id)
                                = index + 1
                          /\ \A k \in 1..(index + 1) :
                                questionQueue[k].id # currentQuestion'.id
                          /\ completed' = completed
                     ELSE /\ currentQuestion' = NULL
                          /\ completed' = TRUE
                  /\ HasKey(answeredQuestions', currentQuestion.id)
                  /\ Len(answeredQuestions') =
                        IF HasKey(answeredQuestions, currentQuestion.id)
                        THEN Len(answeredQuestions)
                        ELSE Len(answeredQuestions) + 1]_vars
    /\ [](\A i, j \in DOMAIN questionQueue :
              i # j => questionQueue[i].id # questionQueue[j].id)
    /\ [](\A i, j \in DOMAIN answeredQuestions :
              i # j => answeredQuestions[i][1] # answeredQuestions[j][1])

C29_Witness ==
    /\ call.op \in {"submitAnswer", "skipCurrentQuestion"}
    /\ call.result = "void"
    /\ Len(questionQueue) = 3
    /\ currentQuestion = questionQueue[3]
    /\ Len(answeredQuestions) = 2
    /\ ~completed

\* C30: submitAnswer and skipCurrentQuestion leave questionQueue as it is,
\* whatever options the answer selects; a step that changes the queue is a
\* generateQuestions or a reset.
C30_QueueChangesOnlyByGenerateAndReset ==
    /\ [][call'.op \in {"submitAnswer", "skipCurrentQuestion"} =>
              questionQueue' = questionQueue]_vars
    /\ [][questionQueue' # questionQueue =>
              call'.op \in {"generateQuestions", "reset"}]_vars

C30_Witness ==
    /\ call = Call("submitAnswer", "void")
    /\ Len(questionQueue) = 3
    /\ HasKey(answeredQuestions, "database-choice")
    /\ GetKey(answeredQuestions, "database-choice").selectedOptionIds # <<>>
    /\ currentQuestion = questionQueue[3]

\* C24: in plan mode, the answer or skip that exhausts the question queue
\* advances the planning phase by one step, once; an answer or skip that
\* leaves a question current, and a key that is ignored, leave the phase as
\* it is.
C24_PhaseAdvancesOnlyWhenExhausted ==
    [][call'.op = "return" =>
          IF /\ call'.result \in {"onAnswer", "onSkip"}
             /\ currentQuestion' = NULL
             /\ enabled
             /\ getNextPhase(currentPhase) # NONE
          THEN /\ currentPhase' = getNextPhase(currentPhase)
               /\ Len(SelectSeq(emitted',
                                LAMBDA e : e.type = "phaseChanged")) = 1
          ELSE currentPhase' = currentPhase]_vars

C25_ApprovalOnlyAtExit ==
    /\ [](ModalSelectors = "PlanApproval" =>
            /\ appState.planningEnabled /\ enabled
            /\ appState.planningPhase = "exit" /\ currentPhase = "exit"
            /\ appState.planFile # NULL
            /\ currentQuestion = NULL)
    /\ []((appState.planningEnabled /\ currentQuestion # NULL) =>
            ModalSelectors = "InteractiveQuestion")
    /\ [][call'.op = "handlePlanApprove" =>
            IF appState.planFile = NULL
            THEN UNCHANGED <<pmState, qmVars, restVars>>
            ELSE ModalSelectors = "PlanApproval"]_vars

C25_Witness ==
    /\ call.op = "handlePlanApprove"
    /\ call.result = "normal"
    /\ ~appState.planningEnabled
    /\ appState.developmentMode = "normal"
    /\ ~enabled
    /\ questionQueue # <<>>
    /\ \E p \in DOMAIN files : p.slug = appState.planFile.slug

\* C26: when handlePlanDiscard has completed for a plan, neither file of
\* the plan's slug exists, planning is disabled in the application and the
\* manager, the application holds no phase and no plan and the question
\* manager is reset; at the handler's await the files are gone while the
\* application still holds the plan; without a plan the handler changes
\* nothing.
C26_DiscardRemovesThePlan ==
    /\ []((call.op = "handlePlanDiscard" /\ call.result = "void") =>
            /\ ~exists(files, getPlanMdPath(AppCwd, call.slug))
            /\ ~exists(files, getPlanJsonPath(AppCwd, call.slug))
            /\ ~appState.planningEnabled /\ ~enabled
            /\ appState.planningPhase = NONE
            /\ appState.planFile = NULL /\ planFile = NULL
            /\ questionQueue = <<>> /\ currentQuestion = NULL
            /\ answeredQuestions = <<>> /\ ~completed)
    /\ [](discardAwaited =>
            /\ ~exists(files, getPlanMdPath(AppCwd, call.slug))
            /\ ~exists(files, getPlanJsonPath(AppCwd, call.slug))
            /\ appState.planFile # NULL
            /\ appState.planningEnabled)
    /\ [][(call'.op = "handlePlanDiscard" /\ appState.planFile = NULL
                /\ ~discardAwaited) =>
            UNCHANGED <<pmState, qmVars, restVars>>]_vars

\* C32: while planning is disabled getAllowedTools() is the empty list and
\* isToolAllowed(t) is true of every tool, so membership in the list
\* disagrees with isToolAllowed for every tool; while planning is enabled an
\* empty list is returned only in the exit phase, and there no tool is
\* allowed.
C32_EmptyListTwoMeanings ==
    /\ ~enabled =>
          /\ getAllowedTools = <<>>
          /\ \A t \in ToolNames :
                /\ isToolAllowed(t)
                /\ ~(includes(getAllowedTools, t) <=> isToolAllowed(t))
    /\ (enabled /\ getAllowedTools = <<>>) =>
          /\ currentPhase = "exit"
          /\ \A t \in ToolNames : ~isToolAllowed(t)

C32_Witness ==
    /\ ~enabled
    /\ call.op = "createPlanFile"
    /\ planFile # NULL
    /\ getAllowedTools = <<>>
    /\ isToolAllowed("write_plan_file")
    /\ ~includes(getAllowedTools, "write_plan_file")

\* C33: whenever planning is disabled the current phase is
\* initial_understanding: while disabled transitionToNextPhase() returns
\* false and setPhase() returns, both without changing the planning state,
\* and disable() leaves the initial phase.
C33_DisabledIsAtInitialPhase ==
    /\ [](~enabled => currentPhase = PLANNING_PHASE_ORDER[1])
    /\ [][(~enabled /\ call'.op \in {"transitionToNextPhase", "setPhase"}) =>
            /\ UNCHANGED pmState
            /\ emitted' = <<>>
            /\ call'.result = (IF call'.op = "setPhase" THEN "void" ELSE "false")]_vars
    /\ [][(enabled /\ call'.op = "disable") =>
            ~enabled' /\ currentPhase' = "initial_understanding"]_vars

C33_Witness ==
    /\ ~enabled
    /\ call = Call("setPhase", "void")
    /\ currentPhase = "initial_understanding"
    /\ planFile # NULL
    /\ phaseProgress["initial_understanding"].steps # <<>>

IsPrefix(short, long) ==
    /\ Len(short) <= Len(long)
    /\ \A i \in DOMAIN short : short[i] = long[i]

\* C35 as stated: while planning is enabled every phase before the current
\* one is completed and no phase after it is, however the phase was reached;
\* a completed flag never reverts and steps are never removed except by
\* disable().
C35_EarlierPhasesCompleted ==
    /\ [](enabled =>
            \A p \in PlanningPhase :
                /\ PhaseIndex(p) < PhaseIndex(currentPhase) => phaseProgress[p].completed
                /\ PhaseIndex(p) > PhaseIndex(currentPhase) => ~phaseProgress[p].completed)
    /\ [][call'.op # "disable" =>
            \A p \in PlanningPhase :
                /\ phaseProgress[p].completed => phaseProgress'[p].completed
                /\ IsPrefix(phaseProgress[p].steps, phaseProgress'[p].steps)]_vars

\* C35 as amended: while planning is enabled no phase after the current one
\* is completed; a phase that is left is completed exactly when it is left
\* by transitionToNextPhase (setPhase leaves the progress log as it is); a
\* completed flag never reverts and steps are never removed except by
\* disable().
C35_CompletedByTransitionOnly ==
    /\ [](enabled =>
            \A p \in PlanningPhase :
                PhaseIndex(p) > PhaseIndex(currentPhase) => ~phaseProgress[p].completed)
    /\ [][(enabled /\ enabled' /\ currentPhase' # currentPhase) =>
            /\ phaseProgress'[currentPhase].completed
                    <=> call'.op = "transitionToNextPhase"
            /\ call'.op = "setPhase" => UNCHANGED phaseProgress]_vars
    /\ [][call'.op # "disable" =>
            \A p \in PlanningPhase :
                /\ phaseProgress[p].completed => phaseProgress'[p].completed
                /\ IsPrefix(phaseProgress[p].steps, phaseProgress'[p].steps)]_vars

C35_Witness ==
    /\ enabled
    /\ currentPhase = "review"
    /\ call = Call("setPhase", "void")
    /\ phaseProgress["initial_understanding"].completed
    /\ ~phaseProgress["design"].completed
    /\ phaseProgress["design"].steps # <<>>

\* C36: in every reachable state of the question manager, also when
\* generateQuestions is called more than once without reset(), completed
\* implies that no question is current, and a current question is an
\* element of the question queue.
C36_QuestionStateConsistent ==
    /\ completed => currentQuestion = NULL
    /\ currentQuestion # NULL =>
          \E i \in DOMAIN questionQueue : questionQueue[i] = currentQuestion

\* C37: in a session of a new or reset manager with one generateQuestions,
\* while a question is current answeredCount is the position of the current
\* question in the queue (so answeredCount + 1 is at most totalQuestions),
\* remainingCount is totalQuestions - answeredCount and never negative, and
\* once completed answeredCount is totalQuestions and the answered ids are
\* the ids of the queue.
C37_CountersAgreeWithPosition ==
    /\ currentQuestion # NULL =>
          /\ answeredCount = findIndexById(questionQueue, currentQuestion.id)
          /\ answeredCount + 1 <= totalQuestions
    /\ remainingCount = totalQuestions - answeredCount
    /\ remainingCount >= 0
    /\ completed =>
          /\ answeredCount = totalQuestions
          /\ {answeredQuestions[i][1] : i \in DOMAIN answeredQuestions}
                = {questionQueue[i].id : i \in DOMAIN questionQueue}

C37_Witness ==
    /\ completed
    /\ call = Call("skipCurrentQuestion", "void")
    /\ totalQuestions = 3
    /\ answeredCount = 3
    /\ remainingCount = 0
    /\ currentQuestion = NULL

\* C39: the question session terminates.  generateQuestions with a queue of
\* N questions makes the head current, or with N = 0 completes at once with
\* no current question; each successful submitAnswer or skipCurrentQuestion
\* moves to the next position and the one at the last position completes
\* with no current question, so exactly N of them complete the session; the
\* recorded answers never outnumber the N questions; and once completed
\* with no current question submitAnswer and skipCurrentQuestion fail and
\* change nothing.
C39_SessionTerminates ==
    /\ [][call'.op = "generateQuestions" =>
            IF questionQueue' = <<>>
            THEN completed' /\ currentQuestion' = NULL
            ELSE currentQuestion' = questionQueue'[1]]_vars
    /\ [][(/\ call'.op \in {"submitAnswer", "skipCurrentQuestion"}
           /\ call'.result = "void") =>
            LET currentIndex == findIndexById(questionQueue, currentQuestion.id)
            IN  IF currentIndex + 1 < totalQuestions
                THEN /\ currentQuestion' = questionQueue[currentIndex + 2]
                     /\ ~completed'
                ELSE /\ currentQuestion' = NULL
                     /\ completed'
                     /\ answeredCount' = totalQuestions]_vars
    /\ [](answeredCount <= totalQuestions)
    /\ [][(/\ completed
           /\ currentQuestion = NULL
           /\ call'.op \in {"submitAnswer", "skipCurrentQuestion"}) =>
            /\ call'.result = "error"
            /\ UNCHANGED qmState]_vars

\* C38: every plan record the planning flow has written to disk, the one
\* persisted by handlePlanApprove included, has one of the five planning
\* phases as its phase.
C38_StoredPhaseIsAPlanningPhase ==
    \A path \in DOMAIN files :
        "json" \in DOMAIN files[path] => files[path].json.phase \in PlanningPhase

\* C31: savePlanFile calls for one slug that overlap can leave the markdown
\* file of one record beside the sidecar of another (the witness is such a
\* state, with no call in flight); a call during which no other call was in
\* flight leaves, when it returns, the markdown file and the sidecar both
\* derived from its record, also after an overlap has left mixed files.
C31_SerialisedSavesAgree ==
    [][\A caller \in DOMAIN inFlight :
          (caller \notin DOMAIN inFlight' /\ ~inFlight[caller].overlapped) =>
              LET this == inFlight[caller]
              IN  /\ exists(files', getPlanMdPath(this.cwd, this.planFile.slug))
                  /\ exists(files', getPlanJsonPath(this.cwd, this.planFile.slug))
                  /\ files'[getPlanMdPath(this.cwd, this.planFile.slug)]
                        = SavedMarkdown(this.planFile, this.markdownContent)
                  /\ files'[getPlanJsonPath(this.cwd, this.planFile.slug)]
                        = JSONstringify(this.planFile)
                  /\ LoadPlanFile(files', this.cwd, this.planFile.slug)
                        = this.planFile]_vars

C31_Witness ==
    /\ inFlight = <<>>
    /\ call.op = "savePlanFile"
    /\ call.result = "void"
    /\ \E one \in SavedPlans, other \in SavedPlans :
          /\ one # other
          /\ one.slug = other.slug
          /\ files[getPlanMdPath(call.cwd, one.slug)] = generatePlanMarkdown(one)
          /\ files[getPlanJsonPath(call.cwd, one.slug)] = JSONstringify(other)

====
